---- MODULE Spec2Model ----
(***************************************************************************)
(* Message ingestion and fan-out pipeline of the WhatsApp backend           *)
(* (src/server.js, with the handlers that file is cut off before taken     *)
(* from src/unnamed/part_002, the same server without media download).     *)
(*                                                                         *)
(* Every request is a task of the Node.js event loop: it runs from one     *)
(* `await` to the next without interruption, so each action below is the   *)
(* code between two awaits of one handler, and tasks interleave only at    *)
(* those points.  A pool.query is one statement against PostgreSQL; it     *)
(* either takes effect or throws.                                          *)
(*                                                                         *)
(* Conventions: an absent (undefined/null) string is "", an absent number  *)
(* or id is 0; the code tests these with || and if(), which treat both     *)
(* alike.  Emoji in content strings are written as :shortcodes:.           *)
(***************************************************************************)
EXTENDS Integers, Sequences, FiniteSets, TLC

\* ------------------------------------------------------------------ bounds

\* requests accepted in one run of the concurrent specification
MaxReqs == 2
\* requests accepted in one run of the sequential specification
MaxSeqReqs == 3
\* requests accepted in one run of the one-number specification
MaxSameReqs == 3
\* messages accepted in one run of the delivery specification
MaxBatchMsgs == 3
\* requests accepted in one run of the sweep specification
MaxSweepReqs == 4
\* requests of the send specification
MaxSendReqs == 2
\* sender numbers of the sequential specification
MaxPhones == 3
\* event times and wall-clock readings are 1..MaxTs
MaxTs == 2

\* caps of the in-memory store (server.js 507-508).  The program's values are
\* 100 and 200; the model bounds them at 2 so that a run of a few requests
\* exceeds them.  cleanupOldData reads them only through the comparisons and
\* slices modelled below, which are the same for every positive value.
MAX_CHATS == 2
MAX_MESSAGES_PER_CHAT == 2

\* sender numbers (message.from), twelve digits: keys of this length are not
\* array indices, so Object.keys lists them in insertion order
PhoneNo(i) == "9" \o ToString(i) \o "1234567890"
Phones == {PhoneNo(i) : i \in 1..MaxPhones}
Timestamps == 1..MaxTs

\* ------------------------------------------------------------ formatBytes

Pow1024(i) == IF i = 0 THEN 1 ELSE IF i = 1 THEN 1024 ELSE IF i = 2 THEN 1048576
              ELSE 1073741824

\* Math.floor(Math.log(bytes) / Math.log(1024)); sizes are below 2^31 here
LogK(bytes) == IF bytes < Pow1024(1) THEN 0 ELSE IF bytes < Pow1024(2) THEN 1
               ELSE IF bytes < Pow1024(3) THEN 2 ELSE 3

sizes == <<"Bytes", "KB", "MB", "GB">>

\* (x).toFixed(2) in hundredths, x = bytes / 1024^i, rounded to nearest; the
\* remainder is scaled apart from the quotient to stay within 32 bits (for
\* i = 3 its low ten bits, below the precision asked for, are dropped first)
ToFixed2(bytes, i) ==
  LET k == Pow1024(i)
      q == bytes \div k
      rem == IF i = 3 THEN (bytes % k) \div 1024 ELSE bytes % k
      d == IF i = 3 THEN 1048576 ELSE k
  IN  q * 100 + (2 * 100 * rem + d) \div (2 * d)

\* parseFloat of a two-decimal string, printed: trailing zeros are dropped
ParseFloatStr(h) ==
  LET whole == h \div 100
      frac == h % 100
  IN  IF frac = 0 THEN ToString(whole)
      ELSE IF frac % 10 = 0 THEN ToString(whole) \o "." \o ToString(frac \div 10)
      ELSE IF frac < 10 THEN ToString(whole) \o ".0" \o ToString(frac)
      ELSE ToString(whole) \o "." \o ToString(frac)

\* mutant: the toFixed(2) string as it is, trailing zeros kept
formatBytes_KeepsZeros(bytes) ==
  IF bytes = 0 THEN "0 Bytes"
  ELSE LET i == LogK(bytes)
           h == ToFixed2(bytes, i)
       IN  ToString(h \div 100) \o "." \o ToString((h % 100) \div 10)
             \o ToString(h % 10) \o " " \o sizes[i + 1]

formatBytes(bytes) ==
  IF bytes = 0 THEN "0 Bytes"
  ELSE LET i == LogK(bytes)
       IN  ParseFloatStr(ToFixed2(bytes, i)) \o " " \o sizes[i + 1]

\* ------------------------------------------------------------- raw events

\* the type-specific sub-object of a raw event (message.text, message.image,
\* ...), with the fields the classifier reads
NoObj == [present |-> FALSE, body |-> "", id |-> "", mime_type |-> "",
          file_size |-> 0, caption |-> "", filename |-> "", name |-> "",
          latitude |-> 0, longitude |-> 0, type |-> "", title |-> "",
          emoji |-> "", message_id |-> ""]

TextObj(body) == [NoObj EXCEPT !.present = TRUE, !.body = body]

MediaObj(id, mime, size, caption) ==
  [NoObj EXCEPT !.present = TRUE, !.id = id, !.mime_type = mime,
                !.file_size = size, !.caption = caption]

RawEvent(from, id, ts, type, obj) ==
  [from |-> from, id |-> id, timestamp |-> ts, type |-> type, obj |-> obj]

\* ------------------------------------------------------------- classifier

\* mediaInfo: null (present = FALSE) or the object built per type.  Its
\* fields that no later step reads (sha256, width, height, duration,
\* coordinates, raw_data, ...) are carried to the JSON column untouched and
\* are left out.
NoMedia == [present |-> FALSE, type |-> "", mime_type |-> "", file_size |-> 0,
            id |-> "", caption |-> "", filename |-> "", downloaded |-> FALSE,
            localUrl |-> "", actualFileSize |-> 0, contentType |-> ""]

\* mutant: the default is forgotten
Or_NoDefault(a, b) == a

Or(a, b) == IF a = "" THEN b ELSE a

captionText(o) == IF o.caption = "" THEN "" ELSE " - " \o o.caption

\* a template literal prints a missing field as "undefined"
Interpolated(s) == IF s = "" THEN "undefined" ELSE s

getDocumentType(mimeType) ==
  CASE mimeType = "application/pdf" -> "PDF Document"
    [] mimeType \in {"application/msword",
         "application/vnd.openxmlformats-officedocument.wordprocessingml.document"} ->
         "Word Document"
    [] mimeType \in {"application/vnd.ms-excel",
         "application/vnd.openxmlformats-officedocument.spreadsheetml.sheet"} ->
         "Excel Spreadsheet"
    [] mimeType \in {"application/vnd.ms-powerpoint",
         "application/vnd.openxmlformats-officedocument.presentationml.presentation"} ->
         "PowerPoint Presentation"
    [] mimeType = "text/plain" -> "Text File"
    [] mimeType = "text/html" -> "HTML File"
    [] mimeType = "text/csv" -> "CSV File"
    [] mimeType = "application/zip" -> "ZIP Archive"
    [] mimeType = "application/x-rar-compressed" -> "RAR Archive"
    [] mimeType = "application/json" -> "JSON File"
    [] mimeType = "application/xml" -> "XML File"
    [] OTHER -> "Document"

Lower == <<"a", "b", "c", "d", "e", "f", "g", "h", "i", "j", "k", "l", "m",
           "n", "o", "p", "q", "r", "s", "t", "u", "v", "w", "x", "y", "z">>
Upper == <<"A", "B", "C", "D", "E", "F", "G", "H", "I", "J", "K", "L", "M",
           "N", "O", "P", "Q", "R", "S", "T", "U", "V", "W", "X", "Y", "Z">>

UpperChar(c) ==
  IF \E i \in 1..26 : Lower[i] = c
  THEN Upper[CHOOSE i \in 1..26 : Lower[i] = c] ELSE c

RECURSIVE toUpperCase(_)
toUpperCase(s) ==
  IF Len(s) = 0 THEN ""
  ELSE UpperChar(SubSeq(s, 1, 1)) \o toUpperCase(SubSeq(s, 2, Len(s)))

\* mutant: the kind is inferred from the fields present, a text body
\* making the message a text message
messageTypeDetail_FromFields(message) ==
  IF message.obj.body # "" THEN "text" ELSE message.type

\* let messageTypeDetail = message.type, never reassigned: the kind tag
\* stored with the row and sent with the forward and the broadcast
messageTypeDetail(message) == message.type

\* Step 1 of processIncomingMessage up to the first await: the content, the
\* mediaInfo draft and the provider handle to download ("" when none)
Classify(message) ==
  LET o == message.obj
      t == message.type
  IN  CASE t = "text" ->
             [content |-> Or(o.body, "[Text Message]"), mediaInfo |-> NoMedia,
              handle |-> ""]
        [] t \in {"audio", "voice"} ->
             IF o.present
             THEN [content |-> ":musical_note: Audio Message ("
                                 \o Or(o.mime_type, "audio/ogg") \o ", "
                                 \o formatBytes(o.file_size) \o ")",
                   mediaInfo |-> [NoMedia EXCEPT !.present = TRUE, !.type = "audio",
                                    !.mime_type = Or(o.mime_type, "audio/ogg"),
                                    !.file_size = o.file_size, !.id = o.id],
                   handle |-> o.id]
             ELSE [content |-> ":musical_note: Audio Message",
                   mediaInfo |-> NoMedia, handle |-> ""]
        [] t = "image" ->
             IF o.present
             THEN [content |-> ":frame: Image" \o captionText(o) \o " ("
                                 \o Or(o.mime_type, "image/jpeg") \o ", "
                                 \o formatBytes(o.file_size) \o ")",
                   mediaInfo |-> [NoMedia EXCEPT !.present = TRUE, !.type = "image",
                                    !.mime_type = Or(o.mime_type, "image/jpeg"),
                                    !.file_size = o.file_size, !.id = o.id,
                                    !.caption = o.caption],
                   handle |-> o.id]
             ELSE [content |-> ":frame: Image", mediaInfo |-> NoMedia,
                   handle |-> ""]
        [] t = "video" ->
             IF o.present
             THEN [content |-> ":clapper: Video" \o captionText(o) \o " ("
                                 \o Or(o.mime_type, "video/mp4") \o ", "
                                 \o formatBytes(o.file_size) \o ")",
                   mediaInfo |-> [NoMedia EXCEPT !.present = TRUE, !.type = "video",
                                    !.mime_type = Or(o.mime_type, "video/mp4"),
                                    !.file_size = o.file_size, !.id = o.id,
                                    !.caption = o.caption],
                   handle |-> ""]
             ELSE [content |-> ":clapper: Video", mediaInfo |-> NoMedia,
                   handle |-> ""]
        [] t = "document" ->
             IF o.present
             THEN [content |-> ":page: " \o Or(o.filename, getDocumentType(o.mime_type))
                                 \o captionText(o) \o " (" \o Interpolated(o.mime_type)
                                 \o ", " \o formatBytes(o.file_size) \o ")",
                   mediaInfo |-> [NoMedia EXCEPT !.present = TRUE, !.type = "document",
                                    !.mime_type = o.mime_type,
                                    !.file_size = o.file_size, !.id = o.id,
                                    !.filename = o.filename, !.caption = o.caption],
                   handle |-> ""]
             ELSE [content |-> ":page: Document", mediaInfo |-> NoMedia,
                   handle |-> ""]
        [] t = "sticker" ->
             [content |-> ":grinning: Sticker",
              mediaInfo |-> [NoMedia EXCEPT !.present = TRUE, !.type = "sticker"],
              handle |-> ""]
        [] t = "location" ->
             IF o.present
             THEN [content |-> ":pin: Location: " \o Or(o.name, "Shared Location")
                                 \o " (" \o ToString(o.latitude) \o ", "
                                 \o ToString(o.longitude) \o ")",
                   mediaInfo |-> [NoMedia EXCEPT !.present = TRUE, !.type = "location"],
                   handle |-> ""]
             ELSE [content |-> ":pin: Location", mediaInfo |-> NoMedia,
                   handle |-> ""]
        [] t = "contacts" ->
             [content |-> ":bust: Contact Shared",
              mediaInfo |-> [NoMedia EXCEPT !.present = TRUE, !.type = "contact"],
              handle |-> ""]
        [] t = "interactive" ->
             IF o.present
             THEN [content |->
                     IF o.type = "button_reply"
                     THEN ":radio_button: Button: " \o Or(o.title, "Button Clicked")
                     ELSE IF o.type = "list_reply"
                     THEN ":clipboard: List Selection: "
                            \o Or(o.title, "List Item Selected")
                     ELSE ":arrows: Interactive Message",
                   mediaInfo |-> [NoMedia EXCEPT !.present = TRUE,
                                    !.type = "interactive"],
                   handle |-> ""]
             ELSE [content |-> ":arrows: Interactive", mediaInfo |-> NoMedia,
                   handle |-> ""]
        [] t = "reaction" ->
             IF o.present
             THEN [content |-> Interpolated(o.emoji) \o " Reaction to message "
                                 \o Interpolated(o.message_id),
                   mediaInfo |-> [NoMedia EXCEPT !.present = TRUE, !.type = "reaction"],
                   handle |-> ""]
             ELSE [content |-> ":thumbsup: Reaction", mediaInfo |-> NoMedia,
                   handle |-> ""]
        [] OTHER ->
             [content |-> "[" \o toUpperCase(t) \o " Message]",
              mediaInfo |-> [NoMedia EXCEPT !.present = TRUE, !.type = t],
              handle |-> ""]

\* ------------------------------------------------------------------ state

VARIABLES
  contacts,    \* table contacts: phone_number -> [id, name, message_count]
  dbChats,     \* table chats: phone_number -> [id, contact_id, unread_count,
               \*   last_message, last_message_at]
  messages,    \* table messages, in insertion order; a row's id is its index
  chats,       \* the in-memory store `chats`: phone -> [name, messages, unread,
               \*   lastMessage]
  chatKeys,    \* Object.keys(chats): the keys in insertion order
  reqs,        \* the requests accepted so far, each with its handler's position
               \*   (pc), its local variables, and on record: how the media
               \*   acquisition ended (acq), the payload of each POST issued
               \*   to n8n (posts), the outcome of each forward once it has
               \*   returned (fwd), the broadcasts (emits), the error caught (err: "db"
               \*   a query the database did not answer, "unique" a violated
               \*   UNIQUE constraint, "type" a TypeError in classification;
               \*   errAt: the position) and the response; rest: the messages
               \*   of the same webhook delivery that the handler's loop has
               \*   not taken up yet; metaPayload: the body of the delivery,
               \*   its changes each with its list of messages; err
               \*   "provider": the send call to the provider failed
  summarised,  \* history: ids of the message rows whose UPDATE chats completed
  markedRead   \* history: phones whose chat row markChatAsRead has reset

vars == <<contacts, dbChats, messages, chats, chatKeys, reqs, summarised, markedRead>>

db == <<contacts, dbChats, messages, summarised, markedRead>>
cache == <<chats, chatKeys>>

NoContact == [id |-> 0, name |-> ""]

NewReq(kind, message, name, pc) ==
  [kind |-> kind, pc |-> pc, message |-> message, name |-> name,
   content |-> "", mediaInfo |-> NoMedia, handle |-> "",
   contact |-> NoContact, chatId |-> 0, savedId |-> 0,
   acq |-> "", posts |-> <<>>, fwd |-> <<>>, emits |-> <<>>, err |-> "",
   errAt |-> "", resp |-> "", rest |-> <<>>, metaPayload |-> <<>>]

Init ==
  /\ contacts = <<>>
  /\ dbChats = <<>>
  /\ messages = <<>>
  /\ chats = <<>>
  /\ chatKeys = <<>>
  /\ reqs = <<>>
  /\ summarised = {}
  /\ markedRead = {}

Rids == DOMAIN reqs
At(r, pc) == r \in Rids /\ reqs[r].pc = pc
Phone(r) == reqs[r].message.from

\* a function extended or overwritten at one key
Put(f, k, v) == [x \in DOMAIN f \cup {k} |-> IF x = k THEN v ELSE f[x]]

\* new Date(message.timestamp * 1000): the event time
EventTime(message) == message.timestamp

\* ------------------------------------------------------- in-memory store

\* mutant: the message is pushed and the summary fields are left for later
CacheReceived_PushOnly(c, phone, name, id, text, ts) ==
  LET e == IF phone \in DOMAIN c THEN c[phone]
           ELSE [name |-> Or(name, "+" \o phone), messages |-> <<>>,
                 unread |-> 0, lastMessage |-> ts]
  IN  Put(c, phone,
          [e EXCEPT !.messages = Append(@, [id |-> id, text |-> text,
                                            timestamp |-> ts, type |-> "received"])])

\* Step 4 of processIncomingMessage: create the entry if absent, push the
\* message, set lastMessage, count it unread
CacheReceived(c, phone, name, id, text, ts) ==
  LET e == IF phone \in DOMAIN c THEN c[phone]
           ELSE [name |-> Or(name, "+" \o phone), messages |-> <<>>,
                 unread |-> 0, lastMessage |-> ts]
  IN  Put(c, phone,
          [e EXCEPT !.messages = Append(@, [id |-> id, text |-> text,
                                            timestamp |-> ts, type |-> "received"]),
                    !.lastMessage = ts,
                    !.unread = @ + 1])

\* the same block of POST /api/n8n/messages: lastMessage is the wall clock,
\* unread is left alone
CacheSent(c, phone, name, id, text, ts, now) ==
  LET e == IF phone \in DOMAIN c THEN c[phone]
           ELSE [name |-> Or(name, "+" \o phone), messages |-> <<>>,
                 unread |-> 0, lastMessage |-> now]
  IN  Put(c, phone,
          [e EXCEPT !.messages = Append(@, [id |-> id, text |-> text,
                                            timestamp |-> ts, type |-> "sent"]),
                    !.lastMessage = now])

KeysAfter(keys, phone) ==
  IF \E i \in DOMAIN keys : keys[i] = phone THEN keys ELSE Append(keys, phone)

\* ---------------------------------------------------------- error paths

\* a handler that has returned: its locals are gone; what it was given, what
\* it stored (savedId) and what it sent out stay on record
Returned(q) ==
  [q EXCEPT !.pc = "done", !.content = "", !.mediaInfo = NoMedia, !.handle = "",
            !.contact = NoContact, !.chatId = 0]

\* the catch block of the handler request r runs in: processIncomingMessage
\* logs and returns, after which POST /webhook answers EVENT_RECEIVED;
\* POST /api/n8n/messages answers 500
Caught(q, cause) ==
  [Returned(q) EXCEPT !.err = cause, !.errAt = q.pc,
                      !.resp = IF q.kind = "webhook" THEN "EVENT_RECEIVED" ELSE "500"]

\* an event without a type tag fails every comparison of the chain and
\* reaches the last branch, where message.type.toUpperCase() is a TypeError
TypeMissing(message) == message.type = ""

\* mutant: every message of every change is taken
RECURSIVE Firsts_EveryMessage(_)
Firsts_EveryMessage(changes) ==
  IF changes = <<>> THEN <<>>
  ELSE Head(changes) \o Firsts_EveryMessage(Tail(changes))

\* const message = change.value.messages[0], for each change of the body
Firsts(changes) == [i \in DOMAIN changes |-> changes[i][1]]

RECURSIVE Enter(_, _, _)
\* The loops of POST /webhook over entries and changes: each message is
\* awaited before the next is taken up.  msgs are the messages[0] of the
\* changes still to process: the first enters processIncomingMessage, with
\* the body of the delivery as its metaPayload, and runs to its first
\* await, the others wait for it to return; a message that throws in
\* classification is caught at once and the loop goes on.  The response is
\* sent when the loop has ended.
Enter(rs, msgs, body) ==
  IF msgs = <<>> THEN rs
  ELSE LET message == Head(msgs)
           c == Classify(message)
           q == [NewReq("webhook", message, "",
                        IF c.handle # "" THEN "mediaUrl" ELSE "contactSel")
                   EXCEPT !.content = c.content, !.mediaInfo = c.mediaInfo,
                          !.handle = c.handle, !.rest = Tail(msgs),
                          !.metaPayload = body]
           thrown == [Caught(NewReq("webhook", message, "", "classify"), "type")
                        EXCEPT !.resp = IF Tail(msgs) = <<>> THEN "EVENT_RECEIVED"
                                        ELSE "",
                               !.metaPayload = body]
       IN  IF TypeMissing(message) THEN Enter(Append(rs, thrown), Tail(msgs), body)
           ELSE Append(rs, q)

\* processIncomingMessage has returned for r: the loop of its delivery
\* takes up the next message, if there is one
Resume(rs, r) ==
  IF rs[r].kind = "webhook" /\ rs[r].pc = "done" /\ rs[r].rest # <<>>
  THEN Enter([rs EXCEPT ![r].rest = <<>>, ![r].resp = ""], rs[r].rest,
             rs[r].metaPayload)
  ELSE rs

\* mutant: the catch block still announces the message to the dashboard
Fail_StillBroadcasts(r, cause) ==
  /\ reqs' = Resume([reqs EXCEPT ![r] =
                [Caught(@, cause) EXCEPT
                   !.emits = Append(@, [event |-> "new_message",
                                        from |-> reqs[r].message.from,
                                        message |-> reqs[r].content,
                                        messageId |-> reqs[r].savedId,
                                        n8nForwarded |-> FALSE,
                                        source |-> "whatsapp"])]], r)
  /\ UNCHANGED <<db, cache>>

Fail(r, cause) ==
  /\ reqs' = Resume([reqs EXCEPT ![r] = Caught(@, cause)], r)
  /\ UNCHANGED <<db, cache>>

\* ------------------------------------------------------ request arrival

\* mutant: the resolver is called right after classification, the media
\* handle left for later
Webhook_ResolverFirst(message) ==
  LET c == Classify(message)
      q == [NewReq("webhook", message, "", "contactSel")
              EXCEPT !.content = c.content, !.mediaInfo = c.mediaInfo,
                     !.handle = c.handle, !.metaPayload = <<<<message>>>>]
  IN  /\ reqs' = Append(reqs, q)
      /\ UNCHANGED <<db, cache>>

\* mutant: every media object that has an id is downloaded, whatever the kind
Webhook_DownloadsEveryKind(message) ==
  LET c == Classify(message)
      h == IF c.mediaInfo.present THEN message.obj.id ELSE ""
      q == [NewReq("webhook", message, "",
                   IF h # "" THEN "mediaUrl" ELSE "contactSel")
              EXCEPT !.content = c.content, !.mediaInfo = c.mediaInfo,
                     !.handle = h, !.metaPayload = <<<<message>>>>]
      thrown == [Caught(NewReq("webhook", message, "", "classify"), "type")
                   EXCEPT !.metaPayload = <<<<message>>>>]
  IN  /\ reqs' = Append(reqs, IF TypeMissing(message) THEN thrown ELSE q)
      /\ UNCHANGED <<db, cache>>

\* POST /webhook with one entry, one change: messages[0] enters
\* processIncomingMessage, which classifies it and reaches its first await,
\* or throws in classification into its catch block
Webhook(message) ==
  LET c == Classify(message)
      q == [NewReq("webhook", message, "",
                   IF c.handle # "" THEN "mediaUrl" ELSE "contactSel")
              EXCEPT !.content = c.content, !.mediaInfo = c.mediaInfo,
                     !.handle = c.handle, !.metaPayload = <<<<message>>>>]
      thrown == [Caught(NewReq("webhook", message, "", "classify"), "type")
                   EXCEPT !.metaPayload = <<<<message>>>>]
  IN  /\ reqs' = Append(reqs, IF TypeMissing(message) THEN thrown ELSE q)
      /\ UNCHANGED <<db, cache>>

\* POST /webhook with a body of several changes, each with its list
\* change.value.messages, of which the first is taken
WebhookDelivery(changes) ==
  /\ reqs' = Enter(reqs, Firsts(changes), changes)
  /\ UNCHANGED <<db, cache>>

\* POST /api/n8n/messages {to, message, timestamp, messageId, contactName}
N8nMessage(to, text, ts, messageId, contactName) ==
  LET q == [NewReq("n8n", RawEvent(to, messageId, ts, "text", TextObj(text)),
                   contactName, "contactSel")
              EXCEPT !.content = text]
  IN  /\ reqs' = Append(reqs, q)
      /\ UNCHANGED <<db, cache>>

\* ------------------------------------------------------ media acquisition

\* mutant: a failed handle exchange is thrown into the pipeline's catch
MediaUrl_Rethrows(r, ok) ==
  /\ At(r, "mediaUrl")
  /\ IF ok THEN /\ reqs' = [reqs EXCEPT ![r].pc = "mediaSave"]
               /\ UNCHANGED <<db, cache>>
     ELSE /\ reqs' = [reqs EXCEPT ![r] = [Caught(@, "media") EXCEPT !.acq = "noUrl"]]
          /\ UNCHANGED <<db, cache>>

\* downloadWhatsAppMedia: the handle exchange; null on any failure
MediaUrl(r, ok) ==
  /\ At(r, "mediaUrl")
  /\ reqs' = [reqs EXCEPT ![r] = IF ok THEN [@ EXCEPT !.pc = "mediaSave"]
                                  ELSE [@ EXCEPT !.pc = "contactSel", !.acq = "noUrl"]]
  /\ UNCHANGED <<db, cache>>

\* the content once the download is saved
SavedContent(q, size) ==
  IF q.mediaInfo.type = "audio"
  THEN ":musical_note: Audio Message (" \o formatBytes(size) \o ")"
  ELSE ":frame: Image" \o captionText(q.mediaInfo) \o " (" \o formatBytes(size) \o ")"

\* mutant: the reference is marked downloaded whether or not the download
\* returned a file
MediaSave_MarksOnFailure(r, ok, size, ctype) ==
  /\ At(r, "mediaSave")
  /\ reqs' = [reqs EXCEPT ![r] =
       [@ EXCEPT !.pc = "contactSel", !.acq = IF ok THEN "saved" ELSE "noFile",
                 !.mediaInfo = [@ EXCEPT !.downloaded = TRUE,
                                  !.localUrl = "/api/media/" \o reqs[r].handle,
                                  !.actualFileSize = size,
                                  !.contentType = Or(ctype, "application/octet-stream")],
                 !.content = SavedContent(reqs[r], size)]]
  /\ UNCHANGED <<db, cache>>

\* saveMediaToServer: the download; null on any failure, else the saved file
\* with its length and the Content-Type header of the response (ctype, ""
\* when there is none)
MediaSave(r, ok, size, ctype) ==
  /\ At(r, "mediaSave")
  /\ reqs' = [reqs EXCEPT ![r] =
       IF ok
       THEN [@ EXCEPT !.pc = "contactSel", !.acq = "saved",
                      !.mediaInfo = [@ EXCEPT !.downloaded = TRUE,
                                       !.localUrl = "/api/media/" \o reqs[r].handle,
                                       !.actualFileSize = size,
                                       !.contentType =
                                          Or(ctype, "application/octet-stream")],
                      !.content = SavedContent(reqs[r], size)]
       ELSE [@ EXCEPT !.pc = "contactSel", !.acq = "noFile"]]
  /\ UNCHANGED <<db, cache>>

\* ------------------------------------------------------- identity resolver

\* findOrCreateContact, the SELECT: an existing row is what the call returns
ContactSelect(r, ok) ==
  /\ At(r, "contactSel")
  /\ IF ~ok THEN Fail(r, "db")
     ELSE /\ reqs' = [reqs EXCEPT ![r] =
                IF Phone(r) \in DOMAIN contacts
                THEN [@ EXCEPT !.pc = "contactUpd",
                               !.contact = [id |-> contacts[Phone(r)].id,
                                            name |-> contacts[Phone(r)].name]]
                ELSE [@ EXCEPT !.pc = "contactIns"]]
          /\ UNCHANGED <<db, cache>>

\* mutant: a lost update, the counter written as one more than the count
\* of a row read when the contact had just been created
TouchContact_Stale(row) == [row EXCEPT !.message_count = 2]

\* the UPDATE of the row found: message_count = message_count + 1
TouchContact(row) == [row EXCEPT !.message_count = @ + 1]

ContactUpdate(r, ok) ==
  /\ At(r, "contactUpd")
  /\ IF ~ok THEN Fail(r, "db")
     ELSE /\ contacts' = [contacts EXCEPT ![Phone(r)] = TouchContact(@)]
          /\ reqs' = [reqs EXCEPT ![r].pc = "chatSel"]
          /\ UNCHANGED <<dbChats, messages, summarised, markedRead, cache>>

\* mutant: a failed INSERT is answered with a contact without id, and the
\* pipeline goes on
ContactInsert_NullOnFailure(r, ok) ==
  /\ At(r, "contactIns")
  /\ IF ~ok \/ Phone(r) \in DOMAIN contacts
     THEN /\ reqs' = [reqs EXCEPT ![r].pc = "chatSel",
                                  ![r].contact = [id |-> 0,
                                                  name |-> "+" \o Phone(r)]]
          /\ UNCHANGED <<db, cache>>
     ELSE LET row == [id |-> Cardinality(DOMAIN contacts) + 1,
                      name |-> Or(reqs[r].name, "+" \o Phone(r)),
                      message_count |-> 1]
          IN  /\ contacts' = Put(contacts, Phone(r), row)
              /\ reqs' = [reqs EXCEPT ![r].pc = "chatSel",
                                      ![r].contact = [id |-> row.id, name |-> row.name]]
              /\ UNCHANGED <<dbChats, messages, summarised, markedRead, cache>>

\* the INSERT of a new contact; phone_number is UNIQUE, so the statement
\* throws when a row for the number has appeared since the SELECT
ContactInsert(r, ok) ==
  /\ At(r, "contactIns")
  /\ IF ~ok THEN Fail(r, "db")
     ELSE IF Phone(r) \in DOMAIN contacts THEN Fail(r, "unique")
     ELSE LET row == [id |-> Cardinality(DOMAIN contacts) + 1,
                      name |-> Or(reqs[r].name, "+" \o Phone(r)),
                      message_count |-> 1]
          IN  /\ contacts' = Put(contacts, Phone(r), row)
              /\ reqs' = [reqs EXCEPT ![r].pc = "chatSel",
                                      ![r].contact = [id |-> row.id, name |-> row.name]]
              /\ UNCHANGED <<dbChats, messages, summarised, markedRead, cache>>

\* mutant: without an answer from the database the call returns a chat
\* without id, and the pipeline goes on to store the message
ChatSelect_NullOnFailure(r, ok) ==
  /\ At(r, "chatSel")
  /\ reqs' = [reqs EXCEPT ![r] =
         IF ok /\ Phone(r) \in DOMAIN dbChats
         THEN [@ EXCEPT !.pc = "msgIns", !.chatId = dbChats[Phone(r)].id]
         ELSE IF ok THEN [@ EXCEPT !.pc = "chatIns"]
         ELSE [@ EXCEPT !.pc = "msgIns", !.chatId = 0]]
  /\ UNCHANGED <<db, cache>>

\* findOrCreateChat, the SELECT
ChatSelect(r, ok) ==
  /\ At(r, "chatSel")
  /\ IF ~ok THEN Fail(r, "db")
     ELSE /\ reqs' = [reqs EXCEPT ![r] =
                IF Phone(r) \in DOMAIN dbChats
                THEN [@ EXCEPT !.pc = "msgIns", !.chatId = dbChats[Phone(r)].id]
                ELSE [@ EXCEPT !.pc = "chatIns"]]
          /\ UNCHANGED <<db, cache>>

\* the INSERT of a new chat; UNIQUE(phone_number)
ChatInsert(r, ok, now) ==
  /\ At(r, "chatIns")
  /\ IF ~ok THEN Fail(r, "db")
     ELSE IF Phone(r) \in DOMAIN dbChats THEN Fail(r, "unique")
     ELSE LET row == [id |-> Cardinality(DOMAIN dbChats) + 1,
                      contact_id |-> reqs[r].contact.id,
                      unread_count |-> 0, last_message |-> "",
                      last_message_at |-> now]
          IN  /\ dbChats' = Put(dbChats, Phone(r), row)
              /\ reqs' = [reqs EXCEPT ![r].pc = "msgIns", ![r].chatId = row.id]
              /\ UNCHANGED <<contacts, messages, summarised, markedRead, cache>>

\* ------------------------------------------------------------ persistence

Direction(q) == IF q.kind = "webhook" THEN "received" ELSE "sent"

\* the messageData handed to addMessage, as the INSERT stores it:
\* message_type_detail is null ("") for a row of POST /api/n8n/messages,
\* media_type is mediaInfo?.type || null
MessageRow(q) ==
  [chat_id |-> q.chatId, contact_id |-> q.contact.id,
   message_type |-> Direction(q), content |-> q.content,
   whatsapp_message_id |-> q.message.id,
   timestamp |-> EventTime(q.message), media_info |-> q.mediaInfo,
   message_type_detail |-> IF q.kind = "webhook" THEN messageTypeDetail(q.message)
                           ELSE "",
   media_type |-> q.mediaInfo.type]

\* mutant: a failed INSERT is answered with a mock row, and the pipeline
\* goes on to the forward and the in-memory store
MessageInsert_MockOnFailure(r, ok) ==
  /\ At(r, "msgIns")
  /\ IF ~ok
     THEN /\ reqs' = [reqs EXCEPT ![r].pc = IF reqs[r].kind = "webhook"
                                             THEN "forward" ELSE "chatUpd"]
          /\ UNCHANGED <<db, cache>>
     ELSE /\ messages' = Append(messages, MessageRow(reqs[r]))
          /\ reqs' = [reqs EXCEPT ![r].pc = "chatUpd",
                                  ![r].savedId = Len(messages) + 1]
          /\ UNCHANGED <<contacts, dbChats, summarised, markedRead, cache>>

\* addMessage, the INSERT INTO messages: the table has no constraint on
\* whatsapp_message_id, and nothing looks the id up first
MessageInsert(r, ok) ==
  /\ At(r, "msgIns")
  /\ IF ~ok THEN Fail(r, "db")
     ELSE /\ messages' = Append(messages, MessageRow(reqs[r]))
          /\ reqs' = [reqs EXCEPT ![r].pc = "chatUpd",
                                  ![r].savedId = Len(messages) + 1]
          /\ UNCHANGED <<contacts, dbChats, summarised, markedRead, cache>>

PreviewLen == 200
CaptionLen == 100

\* the media label of the preview switch
MediaLabel(type) ==
  CASE type = "image" -> ":frame: Image"
    [] type = "audio" -> ":musical_note: Audio Message"
    [] type = "video" -> ":clapper: Video"
    [] type = "document" -> ":page: Document"
    [] OTHER -> ":file_folder: Media"

\* lastMessageContent: content.substring(0, 200), or a media label (with up
\* to 100 characters of caption) when the content is empty, else null
lastMessageContent(row) ==
  IF row.content # ""
  THEN IF Len(row.content) > PreviewLen THEN SubSeq(row.content, 1, PreviewLen)
       ELSE row.content
  ELSE IF row.media_info.present
       THEN MediaLabel(row.media_info.type) \o
            (IF row.media_info.caption = "" THEN ""
             ELSE ": " \o (IF Len(row.media_info.caption) > CaptionLen
                           THEN SubSeq(row.media_info.caption, 1, CaptionLen)
                           ELSE row.media_info.caption))
       ELSE ""

\* mutant: every message counts as unread, whatever its direction
UnreadIncrement_Always(type) == 1

\* unread_count + $3, $3 = messageData.type === 'received' ? 1 : 0
UnreadIncrement(type) == IF type = "received" THEN 1 ELSE 0

\* mutant: the counter is computed from a value read before the statement
\* (here: the value of a fresh chat) and written back
Summarise_Overwrites(chat, row) ==
  [chat EXCEPT !.last_message = lastMessageContent(row),
               !.last_message_at = row.timestamp,
               !.unread_count = UnreadIncrement(row.message_type)]

\* mutant: the summary is kept when the message is older than the one shown
Summarise_KeepsNewest(chat, row) ==
  IF row.timestamp < chat.last_message_at
  THEN [chat EXCEPT !.unread_count = @ + UnreadIncrement(row.message_type)]
  ELSE [chat EXCEPT !.last_message = lastMessageContent(row),
                    !.last_message_at = row.timestamp,
                    !.unread_count = @ + UnreadIncrement(row.message_type)]

\* the UPDATE chats ... WHERE id = $4 of addMessage: one statement, which
\* the database applies atomically to the row
Summarise(chat, row) ==
  [chat EXCEPT !.last_message = lastMessageContent(row),
               !.last_message_at = row.timestamp,
               !.unread_count = @ + UnreadIncrement(row.message_type)]

\* what POST /api/n8n/messages does once addMessage has returned: the
\* broadcast (it carries no n8nForwarded; FALSE stands for the absent
\* field) and the 200 response
N8nStored(q) ==
  [Returned(q) EXCEPT !.resp = "200",
            !.emits = Append(@, [event |-> "new_message", from |-> q.message.from,
                                 message |-> q.content, messageId |-> q.savedId,
                                 n8nForwarded |-> FALSE, source |-> "n8n"])]

\* mutant: the payload's source carries the direction
n8nPayload_SourceIsDirection(q, source) ==
  [from |-> q.message.from, message |-> q.content,
   contactName |-> Or(q.contact.name, "+" \o q.message.from),
   timestamp |-> EventTime(q.message),
   messageId |-> q.message.id,
   source |-> IF Direction(q) = "received" THEN "incoming" ELSE "outgoing",
   direction |-> IF Direction(q) = "received" THEN "incoming" ELSE "outgoing",
   contactId |-> q.contact.id, chatId |-> q.chatId,
   metaData |-> IF source = "whatsapp_incoming" THEN q.metaPayload ELSE <<>>]

\* the n8nPayload forwardToN8N builds from the messageData of step 3; the
\* full body of the delivery goes along as metaData
n8nPayload(q, source) ==
  [from |-> q.message.from, message |-> q.content,
   contactName |-> Or(q.contact.name, "+" \o q.message.from),
   timestamp |-> EventTime(q.message),
   messageId |-> q.message.id, source |-> source,
   direction |-> IF Direction(q) = "received" THEN "incoming" ELSE "outgoing",
   contactId |-> q.contact.id, chatId |-> q.chatId,
   metaData |-> IF source = "whatsapp_incoming" THEN q.metaPayload ELSE <<>>]

\* mutant: the broadcast is dispatched together with the forward, before
\* the forward has returned
ChatUpdate_EmitsEarly(r, ok, now) ==
  /\ At(r, "chatUpd")
  /\ IF ~ok THEN Fail(r, "db")
     ELSE LET q == reqs[r]
          IN  /\ dbChats' = [x \in DOMAIN dbChats |->
                               IF dbChats[x].id = q.chatId
                               THEN Summarise(dbChats[x], MessageRow(q))
                               ELSE dbChats[x]]
              /\ summarised' = summarised \cup {q.savedId}
              /\ IF q.kind = "webhook"
                 THEN /\ reqs' = [reqs EXCEPT
                           ![r].pc = "forward",
                           ![r].posts = Append(@, n8nPayload(q, "whatsapp_incoming")),
                           ![r].emits = Append(@, [event |-> "new_message",
                                                   messageId |-> q.savedId])]
                      /\ UNCHANGED cache
                 ELSE /\ reqs' = [reqs EXCEPT ![r] = N8nStored(q)]
                      /\ chats' = CacheSent(chats, Phone(r), q.name, q.message.id,
                                            q.content, EventTime(q.message), now)
                      /\ chatKeys' = KeysAfter(chatKeys, Phone(r))
              /\ UNCHANGED <<contacts, messages, markedRead>>

\* The UPDATE chats of addMessage.  When it has answered, addMessage returns
\* and the handler runs on to its next await: processIncomingMessage and
\* POST /api/send enter forwardToN8N, which issues the POST to n8n and waits
\* for the response.
ChatUpdate(r, ok, now) ==
  /\ At(r, "chatUpd")
  /\ IF ~ok THEN Fail(r, "db")
     ELSE LET q == reqs[r]
              p == Phone(r)
          IN  /\ dbChats' = [x \in DOMAIN dbChats |->
                               IF dbChats[x].id = q.chatId
                               THEN Summarise(dbChats[x], MessageRow(q))
                               ELSE dbChats[x]]
              /\ summarised' = summarised \cup {q.savedId}
              /\ IF q.kind = "webhook"
                 THEN /\ reqs' = [reqs EXCEPT
                           ![r].pc = "forward",
                           ![r].posts = Append(@, n8nPayload(q, "whatsapp_incoming"))]
                      /\ UNCHANGED cache
                 ELSE IF q.kind = "send"
                 THEN /\ reqs' = [reqs EXCEPT
                           ![r].pc = "sendForward",
                           ![r].posts = Append(@, n8nPayload(q, "dashboard_outgoing"))]
                      /\ UNCHANGED cache
                 ELSE /\ reqs' = [reqs EXCEPT ![r] = N8nStored(q)]
                      /\ chats' = CacheSent(chats, p, q.name, q.message.id,
                                            q.content, EventTime(q.message), now)
                      /\ chatKeys' = KeysAfter(chatKeys, p)
              /\ UNCHANGED <<contacts, messages, markedRead>>

\* ------------------------------------------------------------------ fan-out

\* mutant: the broadcast reports the forward as done without looking
NewMessageEvent_AlwaysForwarded(q, forwarded) ==
  [event |-> "new_message", from |-> q.message.from, message |-> q.content,
   messageId |-> q.savedId, n8nForwarded |-> TRUE, source |-> "whatsapp"]

\* the broadcast payload of step 5; n8nForwarded is n8nForwardResult.success
NewMessageEvent(q, forwarded) ==
  [event |-> "new_message", from |-> q.message.from, message |-> q.content,
   messageId |-> q.savedId, n8nForwarded |-> forwarded, source |-> "whatsapp"]

\* mutant: a failed forward is issued once more
Forward_Retries(r, ok) ==
  /\ At(r, "forward")
  /\ IF ok \/ Len(reqs[r].posts) > 1
     THEN /\ reqs' = [reqs EXCEPT ![r] =
                [Returned(@) EXCEPT !.resp = "EVENT_RECEIVED",
                                    !.fwd = Append(@, ok),
                                    !.emits = Append(@, NewMessageEvent(reqs[r], ok))]]
          /\ chats' = CacheReceived(chats, Phone(r), reqs[r].contact.name,
                                    reqs[r].message.id, reqs[r].content,
                                    EventTime(reqs[r].message))
          /\ chatKeys' = KeysAfter(chatKeys, Phone(r))
     ELSE /\ reqs' = [reqs EXCEPT ![r].posts = Append(@, @[1])]
          /\ UNCHANGED cache
  /\ UNCHANGED db

\* mutant: the broadcast is emitted without the in-memory store being written
Forward_SkipsCache(r, ok) ==
  /\ At(r, "forward")
  /\ reqs' = [reqs EXCEPT ![r] =
         [Returned(@) EXCEPT !.resp = "EVENT_RECEIVED",
                             !.fwd = Append(@, ok),
                             !.emits = Append(@, NewMessageEvent(reqs[r], ok))]]
  /\ UNCHANGED <<db, cache>>

\* The POST to n8n answers, fails or times out (8 s): forwardToN8N returns
\* {success}, having caught every error.  Then, without a further await,
\* steps 4 and 5 and the handler's response
Forward(r, ok) ==
  /\ At(r, "forward")
  /\ LET q == reqs[r]
         p == Phone(r)
     IN  /\ reqs' = Resume([reqs EXCEPT ![r] =
                [Returned(@) EXCEPT !.resp = "EVENT_RECEIVED",
                                    !.fwd = Append(@, ok),
                                    !.emits = Append(@, NewMessageEvent(q, ok))]], r)
         /\ chats' = CacheReceived(chats, p, q.contact.name, q.message.id,
                                   q.content, EventTime(q.message))
         /\ chatKeys' = KeysAfter(chatKeys, p)
  /\ UNCHANGED db

\* ------------------------------------------------------------ send handler

\* POST /api/send {to, message}: the handler issues the send call to the
\* provider and waits for its response
SendMessage(to, text) ==
  LET q == [NewReq("send", RawEvent(to, "", 0, "text", TextObj(text)), "",
                   "provider")
              EXCEPT !.content = text]
  IN  /\ reqs' = Append(reqs, q)
      /\ UNCHANGED <<db, cache>>

\* mutant: the error of the provider call is noted and the handler goes on
\* to save the message
ProviderSend_SavesAnyway(r, ok, id, now) ==
  /\ At(r, "provider")
  /\ reqs' = [reqs EXCEPT ![r] =
       [@ EXCEPT !.pc = "contactSel",
                 !.err = IF ok THEN "" ELSE "provider",
                 !.errAt = IF ok THEN "" ELSE "provider",
                 !.message = [@ EXCEPT !.id = IF ok THEN id ELSE "",
                                       !.timestamp = now]]]
  /\ UNCHANGED <<db, cache>>

\* The provider answers the send call (id: response.data.messages?.[0]?.id,
\* "" when the response has none) or the call throws, into the handler's
\* catch block, which answers 500.
ProviderSend(r, ok, id, now) ==
  /\ At(r, "provider")
  /\ reqs' = [reqs EXCEPT ![r] =
       IF ok
       THEN [@ EXCEPT !.pc = "contactSel",
                      !.message = [@ EXCEPT !.id = id, !.timestamp = now]]
       ELSE Caught(@, "provider")]
  /\ UNCHANGED <<db, cache>>

\* forwardToN8N has returned for POST /api/send: then, without a further
\* await, the in-memory block, the message_sent broadcast and the response
SendForwarded(r, ok, now) ==
  /\ At(r, "sendForward")
  /\ LET q == reqs[r]
         p == Phone(r)
     IN  /\ reqs' = [reqs EXCEPT ![r] =
                [Returned(@) EXCEPT !.resp = "200",
                                    !.fwd = Append(@, ok),
                                    !.emits = Append(@, [event |-> "message_sent",
                                                         to |-> p,
                                                         message |-> q.content,
                                                         messageId |-> q.savedId,
                                                         n8nForwarded |-> ok])]]
         /\ chats' = CacheSent(chats, p, q.contact.name, q.message.id,
                               q.content, now, now)
         /\ chatKeys' = KeysAfter(chatKeys, p)
  /\ UNCHANGED db

\* ------------------------------------------------------------ read handler

\* GET /api/chats/:number/messages
ReadMessages(number) ==
  /\ reqs' = Append(reqs, NewReq("read", RawEvent(number, "", 0, "", NoObj), "",
                                 "markRead"))
  /\ UNCHANGED <<db, cache>>

\* the fallback to memory of that handler, taken when the query threw or
\* returned no rows
ReadFallback(c, number) ==
  IF number \in DOMAIN c THEN [c EXCEPT ![number].unread = 0] ELSE c

\* markChatAsRead: UPDATE chats SET unread_count = 0 WHERE phone_number = $1
MarkChatAsRead(r, ok) ==
  /\ At(r, "markRead")
  /\ IF ok
     THEN /\ dbChats' = [x \in DOMAIN dbChats |->
                           IF x = Phone(r) THEN [dbChats[x] EXCEPT !.unread_count = 0]
                           ELSE dbChats[x]]
          /\ markedRead' = markedRead \cup ({Phone(r)} \cap DOMAIN dbChats)
          /\ reqs' = [reqs EXCEPT ![r].pc = "getMsgs"]
          /\ UNCHANGED <<contacts, messages, summarised, cache>>
     ELSE /\ chats' = ReadFallback(chats, Phone(r))
          /\ reqs' = [reqs EXCEPT ![r].pc = "done", ![r].err = "db",
                                  ![r].errAt = "markRead", ![r].resp = "200"]
          /\ UNCHANGED <<db, chatKeys>>

\* the rows getChatMessages returns: those of the chat with this number
ChatMessages(number) ==
  IF number \in DOMAIN dbChats
  THEN {i \in DOMAIN messages : messages[i].chat_id = dbChats[number].id}
  ELSE {}

GetChatMessages(r, ok) ==
  /\ At(r, "getMsgs")
  /\ chats' = IF ok /\ ChatMessages(Phone(r)) # {} THEN chats
              ELSE ReadFallback(chats, Phone(r))
  /\ reqs' = [reqs EXCEPT ![r].pc = "done", ![r].resp = "200",
                          ![r].err = IF ok THEN "" ELSE "db",
                          ![r].errAt = IF ok THEN "" ELSE "getMsgs"]
  /\ UNCHANGED <<db, chatKeys>>

\* ------------------------------------------------------------------- sweep

RECURSIVE InsertDesc(_, _, _)
\* k placed into a sequence sorted by descending lastMessage, behind every
\* key that is not older (Array.prototype.sort is stable)
InsertDesc(c, sorted, k) ==
  IF sorted = <<>> THEN <<k>>
  ELSE IF c[Head(sorted)].lastMessage >= c[k].lastMessage
       THEN <<Head(sorted)>> \o InsertDesc(c, Tail(sorted), k)
       ELSE <<k>> \o sorted

RECURSIVE SortDesc(_, _)
\* chatNumbers.sort((a, b) => chats[b].lastMessage - chats[a].lastMessage)
SortDesc(c, keys) ==
  IF keys = <<>> THEN <<>>
  ELSE InsertDesc(c, SortDesc(c, SubSeq(keys, 1, Len(keys) - 1)), keys[Len(keys)])

\* mutant: the keys beyond the cap in insertion order, not by activity
Evicted_Unsorted(c, keys) ==
  IF Len(keys) > MAX_CHATS
  THEN {keys[i] : i \in (MAX_CHATS + 1)..Len(keys)}
  ELSE {}

\* sorted.slice(MAX_CHATS): the keys the sweep deletes
Evicted(c, keys) ==
  IF Len(keys) > MAX_CHATS
  THEN LET sorted == SortDesc(c, keys)
       IN  {sorted[i] : i \in (MAX_CHATS + 1)..Len(sorted)}
  ELSE {}

\* mutant: slice(0, MAX_MESSAGES_PER_CHAT), which keeps the oldest
Trimmed_KeepsOldest(msgs) ==
  IF Len(msgs) > MAX_MESSAGES_PER_CHAT
  THEN SubSeq(msgs, 1, MAX_MESSAGES_PER_CHAT)
  ELSE msgs

\* chat.messages.slice(-MAX_MESSAGES_PER_CHAT)
Trimmed(msgs) ==
  IF Len(msgs) > MAX_MESSAGES_PER_CHAT
  THEN SubSeq(msgs, Len(msgs) - MAX_MESSAGES_PER_CHAT + 1, Len(msgs))
  ELSE msgs

RECURSIVE Without(_, _)
Without(keys, gone) ==
  IF keys = <<>> THEN <<>>
  ELSE IF Head(keys) \in gone THEN Without(Tail(keys), gone)
       ELSE <<Head(keys)>> \o Without(Tail(keys), gone)

\* cleanupOldData, on its 30-minute timer and at the head of GET /api/chats
cleanupOldData ==
  LET gone == Evicted(chats, chatKeys)
  IN  /\ chats' = [k \in DOMAIN chats \ gone |->
                     [chats[k] EXCEPT !.messages = Trimmed(@)]]
      /\ chatKeys' = Without(chatKeys, gone)
      /\ UNCHANGED <<db, reqs>>

\* ---------------------------------------------------------- specifications

P1 == PhoneNo(1)
P2 == PhoneNo(2)

TextHi == TextObj("hi")
ImageNoCaption == MediaObj("media.1", "", 204800, "")

\* the sizes a download may turn out to have
DownloadSizes == {1536}
\* the Content-Type headers a download may come with: none, or one
ContentTypes == {"", "image/jpeg"}

ReqIds == 1..(MaxReqs + MaxSeqReqs + MaxSameReqs)

\* The concurrent specification: up to MaxReqs requests in flight together,
\* every query and external call free to fail.  The provider may deliver
\* any of these events, any number of times, in any order.  The first is
\* the text event of the specification's example, with its event time in
\* seconds.
Events ==
  { RawEvent(P1, "wamid.1", 1700000000, "text", TextHi),
    RawEvent(P1, "wamid.2", 2, "image", ImageNoCaption),
    RawEvent(P2, "wamid.3", 1, "text", TextHi) }

Next ==
  \/ \E e \in Events : Len(reqs) < MaxReqs /\ Webhook(e)
  \/ Len(reqs) < MaxReqs /\ N8nMessage(P1, "reply", 2, "n8n.1", "Asha")
  \/ Len(reqs) < MaxReqs /\ ReadMessages(P1)
  \/ \E r \in ReqIds, ok \in BOOLEAN : MediaUrl(r, ok)
  \/ \E r \in ReqIds, ok \in BOOLEAN, size \in DownloadSizes, ctype \in ContentTypes :
       MediaSave(r, ok, size, ctype)
  \/ \E r \in ReqIds, ok \in BOOLEAN : ContactSelect(r, ok)
  \/ \E r \in ReqIds, ok \in BOOLEAN : ContactUpdate(r, ok)
  \/ \E r \in ReqIds, ok \in BOOLEAN : ContactInsert(r, ok)
  \/ \E r \in ReqIds, ok \in BOOLEAN : ChatSelect(r, ok)
  \/ \E r \in ReqIds, ok \in BOOLEAN, now \in {MaxTs} : ChatInsert(r, ok, now)
  \/ \E r \in ReqIds, ok \in BOOLEAN : MessageInsert(r, ok)
  \/ \E r \in ReqIds, ok \in BOOLEAN, now \in {MaxTs} : ChatUpdate(r, ok, now)
  \/ \E r \in ReqIds, ok \in BOOLEAN : Forward(r, ok)
  \/ \E r \in ReqIds, ok \in BOOLEAN : MarkChatAsRead(r, ok)
  \/ \E r \in ReqIds, ok \in BOOLEAN : GetChatMessages(r, ok)

Spec == Init /\ [][Next]_vars

\* The sequential specification: up to MaxSeqReqs requests, one at a time, for
\* MaxPhones numbers, the database answering every query, and the sweep running
\* at any moment, so that the caps of the in-memory store are exceeded.
SeqEvents ==
  { RawEvent(p, "wamid." \o ToString(ts), ts, "text", TextHi) :
      p \in Phones, ts \in Timestamps }

Idle == \A r \in Rids : reqs[r].pc = "done"

NextSeq ==
  \/ \E e \in SeqEvents : Idle /\ Len(reqs) < MaxSeqReqs /\ Webhook(e)
  \/ Idle /\ Len(reqs) < MaxSeqReqs /\ N8nMessage(P1, "reply", 1, "n8n.1", "Asha")
  \/ Idle /\ Len(reqs) < MaxSeqReqs /\ ReadMessages(P1)
  \/ \E r \in ReqIds : ContactSelect(r, TRUE)
  \/ \E r \in ReqIds : ContactUpdate(r, TRUE)
  \/ \E r \in ReqIds : ContactInsert(r, TRUE)
  \/ \E r \in ReqIds : ChatSelect(r, TRUE)
  \/ \E r \in ReqIds : ChatInsert(r, TRUE, MaxTs)
  \/ \E r \in ReqIds : MessageInsert(r, TRUE)
  \/ \E r \in ReqIds : ChatUpdate(r, TRUE, MaxTs)
  \/ \E r \in ReqIds : Forward(r, TRUE)
  \/ \E r \in ReqIds : MarkChatAsRead(r, TRUE)
  \/ \E r \in ReqIds, ok \in BOOLEAN : GetChatMessages(r, ok)
  \/ cleanupOldData

SpecSeq == Init /\ [][NextSeq]_vars

\* The one-number specification: up to MaxSameReqs requests in flight
\* together, all for one number, so that one request can create the contact
\* and the chat while several others update them; every query is free to
\* fail.
NextSame ==
  \/ Len(reqs) < MaxSameReqs
       /\ Webhook(RawEvent(P1, "wamid.1", 1700000000, "text", TextHi))
  \/ \E r \in ReqIds, ok \in BOOLEAN : ContactSelect(r, ok)
  \/ \E r \in ReqIds, ok \in BOOLEAN : ContactUpdate(r, ok)
  \/ \E r \in ReqIds, ok \in BOOLEAN : ContactInsert(r, ok)
  \/ \E r \in ReqIds, ok \in BOOLEAN : ChatSelect(r, ok)
  \/ \E r \in ReqIds, ok \in BOOLEAN : ChatInsert(r, ok, MaxTs)
  \/ \E r \in ReqIds, ok \in BOOLEAN : MessageInsert(r, ok)
  \/ \E r \in ReqIds, ok \in BOOLEAN : ChatUpdate(r, ok, MaxTs)
  \/ \E r \in ReqIds, ok \in BOOLEAN : Forward(r, ok)

SpecSame == Init /\ [][NextSame]_vars

\* The classification specification: one inbound event of any kind (the
\* recognised tags, an unknown one, and no tag at all), its sub-object
\* absent, present without fields, or filled in, taken through
\* the whole pipeline with every query and external call free to fail.
KindTypes == {"text", "audio", "voice", "image", "document", "video", "sticker",
              "location", "contacts", "interactive", "reaction", "order", ""}

Filled(type) ==
  CASE type = "text" -> {TextHi}
    [] type \in {"audio", "voice"} -> {MediaObj("media.2", "audio/ogg", 4096, "")}
    [] type = "image" -> {ImageNoCaption, MediaObj("media.1", "image/png", 204800, "cat")}
    [] type = "document" ->
         {MediaObj("media.3", "application/pdf", 1500000, ""),
          [MediaObj("media.3", "text/csv", 512, "q3") EXCEPT !.filename = "q3.csv"]}
    [] type = "video" -> {MediaObj("media.4", "", 1048576, "clip")}
    [] type = "sticker" -> {MediaObj("media.6", "image/webp", 10240, "")}
    [] type = "location" ->
         {[NoObj EXCEPT !.present = TRUE, !.latitude = 12, !.longitude = 77],
          [NoObj EXCEPT !.present = TRUE, !.name = "Office", !.latitude = 12,
                        !.longitude = 77]}
    [] type = "interactive" ->
         {[NoObj EXCEPT !.present = TRUE, !.type = "button_reply", !.title = "Yes"],
          [NoObj EXCEPT !.present = TRUE, !.type = "list_reply"],
          [NoObj EXCEPT !.present = TRUE, !.type = "nfm_reply"]}
    [] type = "reaction" ->
         {[NoObj EXCEPT !.present = TRUE, !.emoji = ":heart:",
                        !.message_id = "wamid.1"]}
    [] OTHER -> {}

\* a sub-object for the declared type in an event that carries a text body
\* as well
WithTextBody == [MediaObj("media.5", "image/jpeg", 2048, "") EXCEPT !.body = "hi"]

\* the sub-objects an event of a type may carry
KindObjs(type) ==
  Filled(type) \cup {NoObj, [NoObj EXCEPT !.present = TRUE], WithTextBody}

KindEvents ==
  UNION { {RawEvent(P1, "wamid.1", 1, type, o) : o \in KindObjs(type)} :
          type \in KindTypes }

NextKinds ==
  \/ \E e \in KindEvents : reqs = <<>> /\ Webhook(e)
  \/ \E r \in ReqIds, ok \in BOOLEAN : MediaUrl(r, ok)
  \/ \E r \in ReqIds, ok \in BOOLEAN, size \in DownloadSizes, ctype \in ContentTypes :
       MediaSave(r, ok, size, ctype)
  \/ \E r \in ReqIds, ok \in BOOLEAN : ContactSelect(r, ok)
  \/ \E r \in ReqIds, ok \in BOOLEAN : ContactInsert(r, ok)
  \/ \E r \in ReqIds, ok \in BOOLEAN : ChatSelect(r, ok)
  \/ \E r \in ReqIds, ok \in BOOLEAN : ChatInsert(r, ok, MaxTs)
  \/ \E r \in ReqIds, ok \in BOOLEAN : MessageInsert(r, ok)
  \/ \E r \in ReqIds, ok \in BOOLEAN : ChatUpdate(r, ok, MaxTs)
  \/ \E r \in ReqIds, ok \in BOOLEAN : Forward(r, ok)

SpecKinds == Init /\ [][NextKinds]_vars

\* The delivery specification: webhook deliveries that carry two changes,
\* or one change with two messages, beside deliveries of one message, up to
\* MaxBatchMsgs messages taken up in all, with
\* every query and external call free to fail.
Deliveries ==
  { << <<RawEvent(P1, "wamid.2", 2, "image", ImageNoCaption)>>,
       <<RawEvent(P2, "wamid.3", 1, "text", TextHi)>> >>,
    << <<RawEvent(P1, "wamid.4", 1, "", NoObj)>>,
       <<RawEvent(P2, "wamid.3", 1, "text", TextHi)>> >>,
    << <<RawEvent(P1, "wamid.6", 1, "text", TextHi),
         RawEvent(P1, "wamid.7", 2, "text", TextObj("there"))>> >> }

RECURSIVE Waiting(_)
\* the messages accepted and not yet taken up, over the first n requests
Waiting(n) == IF n = 0 THEN 0 ELSE Len(reqs[n].rest) + Waiting(n - 1)

Accepted == Len(reqs) + Waiting(Len(reqs))

NextBatch ==
  \/ \E msgs \in Deliveries : Accepted + Len(msgs) <= MaxBatchMsgs /\ WebhookDelivery(msgs)
  \/ Accepted < MaxBatchMsgs /\ Webhook(RawEvent(P2, "wamid.5", 2, "text", TextHi))
  \/ \E r \in ReqIds, ok \in BOOLEAN : MediaUrl(r, ok)
  \/ \E r \in ReqIds, ok \in BOOLEAN, size \in DownloadSizes, ctype \in ContentTypes :
       MediaSave(r, ok, size, ctype)
  \/ \E r \in ReqIds, ok \in BOOLEAN : ContactSelect(r, ok)
  \/ \E r \in ReqIds, ok \in BOOLEAN : ContactUpdate(r, ok)
  \/ \E r \in ReqIds, ok \in BOOLEAN : ContactInsert(r, ok)
  \/ \E r \in ReqIds, ok \in BOOLEAN : ChatSelect(r, ok)
  \/ \E r \in ReqIds, ok \in BOOLEAN : ChatInsert(r, ok, MaxTs)
  \/ \E r \in ReqIds, ok \in BOOLEAN : MessageInsert(r, ok)
  \/ \E r \in ReqIds, ok \in BOOLEAN : ChatUpdate(r, ok, MaxTs)
  \/ \E r \in ReqIds, ok \in BOOLEAN : Forward(r, ok)

SpecBatch == Init /\ [][NextBatch]_vars

\* The send specification: up to MaxSendReqs requests in flight together,
\* dashboard sends and inbound messages for one number, with the provider
\* call, every query and the forward free to fail.
SentIds == {"wamid.out", ""}

NextSend ==
  \/ Len(reqs) < MaxSendReqs /\ SendMessage(P1, "hello")
  \/ Len(reqs) < MaxSendReqs
       /\ Webhook(RawEvent(P1, "wamid.1", 1, "text", TextHi))
  \/ \E r \in ReqIds, ok \in BOOLEAN, id \in SentIds : ProviderSend(r, ok, id, MaxTs)
  \/ \E r \in ReqIds, ok \in BOOLEAN : ContactSelect(r, ok)
  \/ \E r \in ReqIds, ok \in BOOLEAN : ContactUpdate(r, ok)
  \/ \E r \in ReqIds, ok \in BOOLEAN : ContactInsert(r, ok)
  \/ \E r \in ReqIds, ok \in BOOLEAN : ChatSelect(r, ok)
  \/ \E r \in ReqIds, ok \in BOOLEAN : ChatInsert(r, ok, MaxTs)
  \/ \E r \in ReqIds, ok \in BOOLEAN : MessageInsert(r, ok)
  \/ \E r \in ReqIds, ok \in BOOLEAN : ChatUpdate(r, ok, MaxTs)
  \/ \E r \in ReqIds, ok \in BOOLEAN : Forward(r, ok)
  \/ \E r \in ReqIds, ok \in BOOLEAN : SendForwarded(r, ok, MaxTs)

SpecSend == Init /\ [][NextSend]_vars

\* The sweep specification: up to MaxSweepReqs requests in flight together
\* (inbound messages for one number, each with an id of its own and a
\* later event time than the one before, and reads of that number),
\* the sweep running at any moment between their steps.  The database
\* answers the pipelines' queries and n8n the forward; a read's queries are
\* free to fail, which sends the read to the in-memory store.
NextSweep ==
  \/ /\ Len(reqs) < MaxSweepReqs
     /\ Webhook(RawEvent(P1, "wamid." \o ToString(Len(reqs) + 1), Len(reqs) + 1,
                         "text", TextHi))
  \/ Len(reqs) < MaxSweepReqs /\ ReadMessages(P1)
  \/ \E r \in ReqIds : ContactSelect(r, TRUE)
  \/ \E r \in ReqIds : ContactUpdate(r, TRUE)
  \/ \E r \in ReqIds : ContactInsert(r, TRUE)
  \/ \E r \in ReqIds : ChatSelect(r, TRUE)
  \/ \E r \in ReqIds : ChatInsert(r, TRUE, MaxTs)
  \/ \E r \in ReqIds : MessageInsert(r, TRUE)
  \/ \E r \in ReqIds : ChatUpdate(r, TRUE, MaxTs)
  \/ \E r \in ReqIds : Forward(r, TRUE)
  \/ \E r \in ReqIds, ok \in BOOLEAN : MarkChatAsRead(r, ok)
  \/ \E r \in ReqIds, ok \in BOOLEAN : GetChatMessages(r, ok)
  \/ cleanupOldData

SpecSweep == Init /\ [][NextSweep]_vars

\* ------------------------------------------------------------------ claims

Inbound == {r \in Rids : reqs[r].kind = "webhook"}
Done(r) == reqs[r].pc = "done"

\* the row addMessage stored for request r, once its INSERT and its UPDATE
\* chats have both completed
Persisted(r) == reqs[r].savedId \in summarised

\* r reached step 4: its message was pushed onto the in-memory entry
ReachedCache(r) ==
  \/ reqs[r].kind = "webhook" /\ Len(reqs[r].fwd) > 0
  \/ reqs[r].kind = "n8n" /\ reqs[r].resp = "200"

\* C1: the messages table holds at most one row per provider message id,
\* however often the provider delivers an event.
C1_OneRowPerProviderId ==
  \A i, j \in DOMAIN messages :
    /\ messages[i].message_type = "received"
    /\ messages[j].message_type = "received"
    /\ messages[i].whatsapp_message_id = messages[j].whatsapp_message_id
    => i = j

\* C2: of two inbound events for the same address, processed while the
\* database answers every query, both complete ingestion: each has its
\* message row stored, under the one contact and the one chat of the address.
C2_ConcurrentNewAddressBothIngested ==
  \A r1, r2 \in Inbound :
    /\ r1 # r2 /\ Phone(r1) = Phone(r2)
    /\ Done(r1) /\ Done(r2)
    /\ reqs[r1].err # "db" /\ reqs[r2].err # "db"
    => /\ Persisted(r1) /\ Persisted(r2)
       /\ messages[reqs[r1].savedId].chat_id = messages[reqs[r2].savedId].chat_id
       /\ messages[reqs[r1].savedId].contact_id = messages[reqs[r2].savedId].contact_id

\* C3: once the forward to n8n has returned, failed or not, the message is
\* stored, exactly one new_message broadcast is emitted for it, and the
\* broadcast's n8nForwarded flag is the forward's outcome.
C3_ForwardFailureIsolated ==
  \A r \in Inbound :
    Len(reqs[r].fwd) > 0 =>
      /\ Persisted(r)
      /\ messages[reqs[r].savedId].whatsapp_message_id = reqs[r].message.id
      /\ Len(reqs[r].emits) = 1
      /\ reqs[r].emits[1].event = "new_message"
      /\ reqs[r].emits[1].messageId = reqs[r].savedId
      /\ reqs[r].emits[1].n8nForwarded = reqs[r].fwd[1]

\* C3 witness: a forward failed, and its message is stored and broadcast
C3_Witness ==
  \E r \in Inbound :
    /\ reqs[r].fwd = <<FALSE>>
    /\ Persisted(r)
    /\ Len(reqs[r].emits) = 1 /\ reqs[r].emits[1].n8nForwarded = FALSE

\* C4 as claimed: in every reachable state no in-memory entry holds more
\* than MAX_MESSAGES_PER_CHAT messages.
C4_CapInEveryState ==
  \A p \in DOMAIN chats : Len(chats[p].messages) <= MAX_MESSAGES_PER_CHAT

\* C4 as amended: every sweep leaves each entry it keeps with at most
\* MAX_MESSAGES_PER_CHAT messages, and these are the most recently appended
\* ones of the entry, in order: the ones dropped are the oldest.
C4_SweepKeepsNewest ==
  [][cleanupOldData =>
       \A p \in DOMAIN chats' :
         LET old == chats[p].messages
             new == chats'[p].messages
         IN  /\ Len(new) <= MAX_MESSAGES_PER_CHAT
             /\ Len(new) <= Len(old)
             /\ Len(old) <= MAX_MESSAGES_PER_CHAT => new = old
             /\ new = SubSeq(old, Len(old) - Len(new) + 1, Len(old))]_vars

\* the messages ever pushed onto the entry of p
Pushed(p) == Cardinality({r \in Rids : ReachedCache(r) /\ Phone(r) = p})

\* C4 witness: an entry swept down to the cap after more than the cap had
\* been pushed onto it, its newest message still the last one
C4_Witness ==
  \E p \in DOMAIN chats :
    /\ Pushed(p) > MAX_MESSAGES_PER_CHAT
    /\ Len(chats[p].messages) = MAX_MESSAGES_PER_CHAT
    /\ Cardinality(DOMAIN chats) = 1

\* C5: a sweep deletes keys only when there are more than MAX_CHATS, then
\* leaves exactly MAX_CHATS, and no key it deletes has a later lastMessage
\* than a key it keeps.
C5_SweepEvictsLeastRecent ==
  [][cleanupOldData =>
       LET removed == DOMAIN chats \ DOMAIN chats'
       IN  /\ DOMAIN chats' \subseteq DOMAIN chats
           /\ Cardinality(DOMAIN chats) <= MAX_CHATS => removed = {}
           /\ Cardinality(DOMAIN chats) > MAX_CHATS
                => Cardinality(DOMAIN chats') = MAX_CHATS
           /\ \A g \in removed, k \in DOMAIN chats' :
                chats[g].lastMessage <= chats[k].lastMessage]_vars

\* C5 witness: a number whose message reached the store has no entry any
\* more, and the entries kept are at the cap
C5_Witness ==
  /\ Cardinality(DOMAIN chats) = MAX_CHATS
  /\ \E r \in Rids : ReachedCache(r) /\ Phone(r) \notin DOMAIN chats

\* a MediaReference left unresolved: the draft, not marked downloaded, no URL
Unresolved(m) ==
  /\ m.present /\ ~m.downloaded
  /\ m.localUrl = "" /\ m.actualFileSize = 0 /\ m.contentType = ""

\* C6: a media acquisition that failed at the handle exchange or at the
\* download does not abort the pipeline: the message keeps its draft
\* MediaReference and a non-empty content, the row stored for it carries
\* both, and unless a database statement fails it is stored and forwarded.
C6_MediaFailureNonFatal ==
  \A r \in Inbound :
    reqs[r].acq \in {"noUrl", "noFile"} =>
      /\ reqs[r].err \in {"", "db", "unique"}
      /\ ~Done(r) => Unresolved(reqs[r].mediaInfo) /\ reqs[r].content # ""
      /\ reqs[r].savedId # 0 =>
           /\ Unresolved(messages[reqs[r].savedId].media_info)
           /\ messages[reqs[r].savedId].content # ""
      /\ Done(r) /\ reqs[r].err = "" => Persisted(r) /\ Len(reqs[r].fwd) = 1

\* C6 witness: the download failed after the handle exchange succeeded, and
\* the message is stored unresolved and forwarded
C6_Witness ==
  \E r \in Inbound :
    /\ reqs[r].acq = "noFile" /\ Done(r) /\ Persisted(r)
    /\ Unresolved(messages[reqs[r].savedId].media_info)
    /\ reqs[r].fwd = <<TRUE>>

\* C7: a webhook request is answered EVENT_RECEIVED exactly when the message
\* it carried was persisted.
C7_AckIffPersisted ==
  \A r \in Inbound :
    Done(r) => (reqs[r].resp = "EVENT_RECEIVED" <=> (Persisted(r) \/ ReachedCache(r)))

\* C8: a message ingested while the database does not answer is written to
\* the in-memory store under its number, forwarded and broadcast.
C8_DegradesToCache ==
  \A r \in Inbound :
    Done(r) /\ reqs[r].err = "db" =>
      /\ Phone(r) \in DOMAIN chats
      /\ Len(reqs[r].fwd) = 1
      /\ Len(reqs[r].emits) = 1

\* C9: when a statement of addMessage throws, the request that delivered
\* the message is not answered with the success acknowledgment.
C9_WriteErrorSurfaced ==
  \A r \in Inbound :
    Done(r) /\ reqs[r].err = "db" /\ reqs[r].errAt \in {"msgIns", "chatUpd"}
      => reqs[r].resp # "EVENT_RECEIVED"

\* the rows of direction dir that addMessage has completed for a chat
Completed(chatId, dir) ==
  {i \in summarised : messages[i].chat_id = chatId /\ messages[i].message_type = dir}

\* C10: while no mark-as-read has reset it, a chat's unread_count is the
\* number of received messages addMessage has persisted for it; sent
\* messages leave it alone.
C10_UnreadCountsReceived ==
  \A p \in DOMAIN dbChats \ markedRead :
    dbChats[p].unread_count = Cardinality(Completed(dbChats[p].id, "received"))

\* C10 witness: a chat with one received and one sent message persisted
C10_Witness ==
  \E p \in DOMAIN dbChats \ markedRead :
    /\ Cardinality(Completed(dbChats[p].id, "received")) = 1
    /\ Cardinality(Completed(dbChats[p].id, "sent")) = 1
    /\ dbChats[p].unread_count = 1

\* the rows addMessage has completed for a chat, of either direction
CompletedRows(chatId) == {i \in summarised : messages[i].chat_id = chatId}

\* C11: under every interleaving of addMessage calls on one chat no unread
\* increment is lost, and the chat's preview and last-message time are
\* both those of one and the same completed message.
C11_SummaryUpdatesSerialised ==
  \A p \in DOMAIN dbChats :
    LET c == dbChats[p]
    IN  /\ p \notin markedRead =>
             c.unread_count = Cardinality(Completed(c.id, "received"))
        /\ CompletedRows(c.id) # {} =>
             \E i \in CompletedRows(c.id) :
               /\ c.last_message = lastMessageContent(messages[i])
               /\ c.last_message_at = messages[i].timestamp

\* C11 witness: two addMessage calls on one chat overlapped (the row
\* inserted first was summarised last) and both increments are counted
C11_Witness ==
  \E p \in DOMAIN dbChats \ markedRead :
    \E i, j \in CompletedRows(dbChats[p].id) :
      /\ i < j
      /\ messages[i].message_type = "received"
      /\ messages[j].message_type = "received"
      /\ messages[i].timestamp # messages[j].timestamp
      /\ dbChats[p].last_message_at = messages[i].timestamp
      /\ dbChats[p].unread_count = 2

InCache(r) ==
  /\ Phone(r) \in DOMAIN chats
  /\ \E i \in DOMAIN chats[Phone(r)].messages :
       chats[Phone(r)].messages[i].id = reqs[r].message.id

\* C13 as claimed: when the forward of a message starts, every write made
\* for it is complete: the row, the chat summary and the in-memory append.
C13_AllWritesBeforeFanOut ==
  \A r \in Inbound :
    reqs[r].posts # <<>> => Persisted(r) /\ InCache(r)

\* C13 as amended: when the forward starts, the row and the chat summary
\* are written; the in-memory append is made after the forward has
\* returned and is complete when the broadcast is emitted.
C13_DurableBeforeForwardCacheBeforeBroadcast ==
  \A r \in Inbound :
    /\ reqs[r].posts # <<>> =>
         /\ Persisted(r)
         /\ messages[reqs[r].savedId].whatsapp_message_id = reqs[r].message.id
    /\ reqs[r].emits # <<>> => InCache(r)
    /\ (/\ reqs[r].pc = "forward"
        /\ \A r2 \in Rids : Phone(r2) = Phone(r) => ~ReachedCache(r2))
         => Phone(r) \notin DOMAIN chats

\* C13 witness: a forward in flight for a message that is stored and
\* summarised, its number not yet in the in-memory store
C13_Witness ==
  \E r \in Inbound :
    /\ reqs[r].pc = "forward" /\ Persisted(r)
    /\ Phone(r) \notin DOMAIN chats

\* C14: whatever the type tag and whether or not its sub-object is there,
\* the content classification produces is not the empty string: not while
\* the pipeline runs, not in the row stored, not in the payload forwarded.
C14_ContentNonEmpty ==
  \A r \in Inbound :
    /\ ~Done(r) => reqs[r].content # ""
    /\ reqs[r].savedId # 0 => messages[reqs[r].savedId].content # ""
    /\ \A i \in DOMAIN reqs[r].posts : reqs[r].posts[i].message # ""
    /\ \A i \in DOMAIN reqs[r].emits : reqs[r].emits[i].message # ""

\* C14 witness: a text event without a body and an event of an unknown
\* type are both storable with their placeholders
C14_Witness ==
  \E r \in Inbound :
    /\ reqs[r].message.type = "text" /\ reqs[r].message.obj.body = ""
    /\ reqs[r].savedId # 0
    /\ messages[reqs[r].savedId].content = "[Text Message]"

\* the inbound text event of the specification's example
Example(r) ==
  /\ reqs[r].kind = "webhook"
  /\ reqs[r].message = RawEvent("911234567890", "wamid.1", 1700000000, "text",
                                TextObj("hi"))

\* the step in which addMessage returns for r and the forward is issued
Stored(r) == reqs[r].pc = "chatUpd" /\ reqs'[r].pc = "forward"

Contains(s, x) ==
  \E i \in 1..Len(s) : i + Len(x) - 1 <= Len(s) /\ SubSeq(s, i, i + Len(x) - 1) = x

\* an inbound image event with file_size 204800 and no caption
ImageExample(r) ==
  /\ reqs[r].kind = "webhook" /\ reqs[r].message.type = "image"
  /\ reqs[r].message.obj.present
  /\ reqs[r].message.obj.file_size = 204800 /\ reqs[r].message.obj.caption = ""

\* C16 as claimed: before media acquisition the content of such an event
\* contains "200.00 KB"; once the download is saved it shows the actual size.
C16_TwoDecimalsAlways ==
  \A r \in Rids :
    ImageExample(r) /\ ~Done(r) =>
      /\ reqs[r].acq = "" => Contains(reqs[r].content, "200.00 KB")
      /\ reqs[r].acq = "saved" =>
           Contains(reqs[r].content, formatBytes(reqs[r].mediaInfo.actualFileSize))

\* C16 as amended: before media acquisition the content contains "200 KB"
\* (at most two decimals, trailing zeros dropped); once the download is
\* saved it shows the actual size instead; after a failed acquisition it
\* keeps the declared size.
C16_AtMostTwoDecimals ==
  \A r \in Rids :
    ImageExample(r) /\ ~Done(r) =>
      /\ reqs[r].acq # "saved" =>
           /\ Contains(reqs[r].content, "200 KB")
           /\ reqs[r].content = ":frame: Image ("
                 \o Or(reqs[r].message.obj.mime_type, "image/jpeg") \o ", 200 KB)"
      /\ reqs[r].acq = "saved" =>
           /\ reqs[r].mediaInfo.actualFileSize \in DownloadSizes
           /\ Contains(reqs[r].content, formatBytes(reqs[r].mediaInfo.actualFileSize))
           /\ ~Contains(reqs[r].content, "200 KB")

\* C16 witness: the image example stored after a saved download of 1536
\* bytes, its content showing 1.5 KB
C16_Witness ==
  \E r \in Rids :
    /\ ImageExample(r) /\ reqs[r].acq = "saved" /\ reqs[r].savedId # 0
    /\ messages[reqs[r].savedId].content = ":frame: Image (1.5 KB)"
    /\ messages[reqs[r].savedId].media_info.actualFileSize = 1536

\* C17: once addMessage has ended for a message, by returning or by
\* throwing, a row stored for it is reflected in its chat's summary: the
\* preview, the last-message time and the unread counter were updated for it.
C17_InsertAndSummaryOneUnit ==
  \A r \in Rids :
    Done(r) /\ reqs[r].savedId # 0 => Persisted(r)

\* r is in media acquisition: its handle exchange or download is pending
InMedia(r) == reqs[r].pc \in {"mediaUrl", "mediaSave"}

ResolverReturned(r) ==
  /\ reqs[r].kind \in {"webhook", "n8n"}
  /\ \/ reqs[r].pc \in {"chatSel", "chatIns", "msgIns", "chatUpd", "forward"}
     \/ Done(r) /\ reqs[r].errAt \notin {"classify", "contactSel", "contactUpd",
                                       "contactIns"}

ResolvedFor(p) == {r \in Rids : ResolverReturned(r) /\ Phone(r) = p}

\* C19: a contact's message_count is the number of findOrCreateContact
\* calls that have returned for its number, under every interleaving; a
\* number for which none has returned has no contact.
C19_MessageCountCountsCalls ==
  \A p \in {Phone(r) : r \in Rids} :
    IF p \in DOMAIN contacts
    THEN contacts[p].message_count = Cardinality(ResolvedFor(p))
    ELSE ResolvedFor(p) = {}

\* C19 witness: three calls for one number have returned, the first
\* creating the contact with count 1, two of them still in their pipelines
C19_Witness ==
  \E p \in DOMAIN contacts :
    /\ contacts[p].message_count = 3
    /\ \E r1, r2 \in ResolvedFor(p) : r1 # r2 /\ ~Done(r1) /\ ~Done(r2)

\* C20: for each message ingested at most one POST to n8n is issued and
\* at most one broadcast emitted, whatever the forward's outcome; a stored
\* row is forwarded by the one request that stored it.
C20_FanOutAtMostOnce ==
  /\ \A r \in Inbound :
       /\ Len(reqs[r].posts) <= 1 /\ Len(reqs[r].emits) <= 1
       /\ Len(reqs[r].fwd) <= Len(reqs[r].posts)
       /\ Len(reqs[r].emits) <= Len(reqs[r].fwd)
       /\ Done(r) /\ reqs[r].err = "" =>
            Len(reqs[r].posts) = 1 /\ Len(reqs[r].emits) = 1
  /\ \A i \in DOMAIN messages :
       Cardinality({r \in Rids : reqs[r].savedId = i}) = 1

\* C20 witness: a forward failed, and its request ended with the one POST
\* and the one broadcast
C20_Witness ==
  \E r \in Inbound :
    /\ Done(r) /\ reqs[r].fwd = <<FALSE>>
    /\ Len(reqs[r].posts) = 1 /\ Len(reqs[r].emits) = 1

MediaTypeOf(tag) ==
  CASE tag = "voice" -> "audio"
    [] tag = "contacts" -> "contact"
    [] OTHER -> tag

\* C22: the kind of a message is decided by its type tag alone.  The row
\* stored for an event carries the tag as its kind whatever fields the event
\* has, its media_type is absent or the one of the tag, and an event with a
\* tag other than text is not made a text message by a text body it
\* carries: neither its kind nor its content is that of the body.
C22_KindFromTagAlone ==
  \A r \in Inbound :
    LET m == reqs[r].message
    IN  /\ ~Done(r) /\ m.type # "text" /\ m.obj.body # "" =>
             reqs[r].content # m.obj.body
        /\ reqs[r].savedId # 0 =>
             LET row == messages[reqs[r].savedId]
             IN  /\ row.message_type_detail = m.type
                 /\ row.media_type \in {"", MediaTypeOf(m.type)}
                 /\ m.type # "text" /\ m.obj.body # "" =>
                      /\ row.message_type_detail # "text"
                      /\ row.content # m.obj.body

\* C22 witness: an image event that carries a text body is stored as an
\* image
C22_Witness ==
  \E r \in Inbound :
    /\ reqs[r].message.type = "image" /\ reqs[r].message.obj.body = "hi"
    /\ reqs[r].savedId # 0
    /\ messages[reqs[r].savedId].message_type_detail = "image"
    /\ messages[reqs[r].savedId].media_type = "image"
    /\ Contains(messages[reqs[r].savedId].content, ":frame: Image")

BinaryKinds == {"image", "audio", "voice", "video", "document", "sticker"}

\* C23: after classification an event of a binary kind (image, audio,
\* video, document, sticker) whose sub-object is there has a mediaInfo
\* draft that carries the MIME type, byte size and handle the sub-object
\* declares, and a location, interactive or reaction event has no mediaInfo.
C23_DraftExactlyForBinaryKinds ==
  \A r \in Inbound :
    LET m == reqs[r].message
        d == reqs[r].mediaInfo
    IN  ~Done(r) =>
          /\ m.type \in BinaryKinds /\ m.obj.present =>
                /\ d.present
                /\ m.obj.mime_type # "" => d.mime_type = m.obj.mime_type
                /\ d.file_size = m.obj.file_size
                /\ d.id = m.obj.id
          /\ m.type \in {"location", "interactive", "reaction"} => ~d.present

\* C24: media acquisition has two steps.  A download is pending only after
\* a handle exchange that returned a URL; a reference becomes resolved only
\* in the step in which that download returns a file, and then the local
\* URL, the actual size and the observed content type are recorded and the
\* content shows the actual size; in every other case the reference stays
\* the unresolved draft and the content keeps the declared size.
C24_ResolvedIffBothSteps ==
  /\ [](\A r \in Inbound :
          ~Done(r) /\ reqs[r].mediaInfo.present =>
            IF reqs[r].acq = "saved"
            THEN /\ reqs[r].mediaInfo.downloaded
                 /\ reqs[r].mediaInfo.localUrl = "/api/media/" \o reqs[r].message.obj.id
                 /\ reqs[r].mediaInfo.actualFileSize \in DownloadSizes
                 /\ reqs[r].mediaInfo.contentType # ""
                 /\ reqs[r].content =
                      SavedContent(reqs[r], reqs[r].mediaInfo.actualFileSize)
            ELSE /\ Unresolved(reqs[r].mediaInfo)
                 /\ reqs[r].content = Classify(reqs[r].message).content)
  /\ [][\A r \in Rids \cap Inbound :
          /\ reqs'[r].pc = "mediaSave" /\ reqs[r].pc # "mediaSave" =>
               reqs[r].pc = "mediaUrl" /\ reqs[r].acq = ""
          /\ reqs'[r].acq = "saved" /\ reqs[r].acq # "saved" =>
               reqs[r].pc = "mediaSave"
          /\ reqs[r].pc = "mediaUrl" /\ reqs'[r].acq = "noUrl" =>
               reqs'[r].pc = "contactSel"]_vars

\* C24 witness: an audio message whose handle exchange and download both
\* succeeded is stored resolved, with the actual size in its content
C24_Witness ==
  \E r \in Inbound :
    /\ reqs[r].message.type = "audio" /\ reqs[r].acq = "saved"
    /\ reqs[r].savedId # 0
    /\ messages[reqs[r].savedId].media_info.downloaded
    /\ messages[reqs[r].savedId].media_info.contentType = "application/octet-stream"
    /\ messages[reqs[r].savedId].content = ":musical_note: Audio Message (1.5 KB)"

\* r is waiting on an external call: the handle exchange, the download or
\* the forward to n8n
InExternalCall(r) == reqs[r].pc \in {"mediaUrl", "mediaSave", "forward"}

\* C25: a pending media download or forward of one message holds back no
\* other message: while a message waits on an external call, no message
\* delivered with it in the same webhook request is still waiting to be
\* taken up.
C25_ExternalCallBlocksNoMessage ==
  \A r \in Inbound : InExternalCall(r) => reqs[r].rest = <<>>

\* s is the beginning of t
IsPrefix(s, t) == Len(s) <= Len(t) /\ SubSeq(t, 1, Len(s)) = s
\* s is the end of t
IsSuffix(s, t) == Len(s) <= Len(t) /\ SubSeq(t, Len(t) - Len(s) + 1, Len(t)) = s

\* C26: no interleaving of pipelines, reads and sweeps shows or leaves a
\* half-updated entry of the in-memory store.  In every state an entry
\* holds a message, its lastMessage is the time of the message appended
\* last, and its key is listed once.  The step that appends a message also
\* creates the entry if need be, sets lastMessage and counts the message
\* unread.  A step of a request never removes an entry or a message; a
\* sweep leaves the entries it keeps with the end of their messages and
\* their summary fields untouched.
C26_CacheUpdatesAtomic ==
  /\ [](/\ \A p \in DOMAIN chats :
            /\ chats[p].messages # <<>>
            /\ chats[p].lastMessage =
                 chats[p].messages[Len(chats[p].messages)].timestamp
            /\ Cardinality({i \in DOMAIN chatKeys : chatKeys[i] = p}) = 1
         /\ {chatKeys[i] : i \in DOMAIN chatKeys} = DOMAIN chats)
  /\ [][/\ \A r \in Rids :
            reqs[r].pc = "forward" /\ reqs'[r].pc = "done" =>
              LET p == Phone(r)
                  e == chats'[p]
              IN  /\ e.messages[Len(e.messages)].id = reqs[r].message.id
                  /\ e.lastMessage = EventTime(reqs[r].message)
                  /\ e.unread = (IF p \in DOMAIN chats THEN chats[p].unread ELSE 0) + 1
                  /\ p \in DOMAIN chats =>
                       e.messages = Append(chats[p].messages,
                                           e.messages[Len(e.messages)])
         /\ \A k \in DOMAIN chats :
              /\ reqs' # reqs =>
                   /\ k \in DOMAIN chats'
                   /\ IsPrefix(chats[k].messages, chats'[k].messages)
              /\ reqs' = reqs /\ k \in DOMAIN chats' =>
                   /\ IsSuffix(chats'[k].messages, chats[k].messages)
                   /\ Len(chats'[k].messages) =
                        IF Len(chats[k].messages) > MAX_MESSAGES_PER_CHAT
                        THEN MAX_MESSAGES_PER_CHAT ELSE Len(chats[k].messages)
                   /\ chats'[k].unread = chats[k].unread
                   /\ chats'[k].lastMessage = chats[k].lastMessage]_vars

\* C26 witness: while the pipeline of the first message was between
\* awaits, later messages were appended and a sweep trimmed the entry; the
\* first message was then appended to the trimmed entry and counted
C26_Witness ==
  /\ P1 \in DOMAIN chats
  /\ Pushed(P1) > MAX_MESSAGES_PER_CHAT + 1
  /\ Len(chats[P1].messages) = MAX_MESSAGES_PER_CHAT + 1
  /\ chats[P1].messages[Len(chats[P1].messages)].id = "wamid.1"
  /\ chats[P1].unread = Pushed(P1)

\* C27: conversations and identities are one to one.  Every chat row
\* belongs to a number that has a contact row, and refers to that contact;
\* no two chat rows share an id or a contact; a chat row exists only for a
\* number a message has been received from or sent to.
C27_OneChatPerContact ==
  /\ \A p \in DOMAIN dbChats :
       /\ p \in DOMAIN contacts
       /\ dbChats[p].contact_id = contacts[p].id
       /\ \E r \in Rids : reqs[r].kind \in {"webhook", "n8n"} /\ Phone(r) = p
  /\ \A p1, p2 \in DOMAIN dbChats :
       \/ p1 = p2
       \/ /\ dbChats[p1].id # dbChats[p2].id
          /\ dbChats[p1].contact_id # dbChats[p2].contact_id

\* C27 witness: the chat a first message created for its number is found
\* again by a second message for that number, sent or received
C27_Witness ==
  /\ Cardinality(DOMAIN dbChats) = 1 /\ Cardinality(DOMAIN contacts) = 1
  /\ \E r1, r2 \in Rids :
       /\ r1 # r2 /\ Phone(r1) = Phone(r2)
       /\ reqs[r1].savedId # 0 /\ reqs[r2].savedId # 0
       /\ messages[reqs[r1].savedId].chat_id = messages[reqs[r2].savedId].chat_id

\* C28: every message row refers to a chat and to a contact, both the rows
\* of the number the message was received from or sent to, and that chat
\* refers to that contact.
C28_RowHasChatAndContact ==
  \A i \in DOMAIN messages :
    /\ messages[i].chat_id # 0 /\ messages[i].contact_id # 0
    /\ \E r \in Rids :
         /\ reqs[r].savedId = i
         /\ Phone(r) \in DOMAIN dbChats /\ Phone(r) \in DOMAIN contacts
         /\ dbChats[Phone(r)].id = messages[i].chat_id
         /\ contacts[Phone(r)].id = messages[i].contact_id
         /\ dbChats[Phone(r)].contact_id = messages[i].contact_id

\* C28 witness: a row received from one number and a row sent to another,
\* each under the chat and the contact of its own number
C28_Witness ==
  \E i, j \in DOMAIN messages :
    /\ messages[i].message_type = "received" /\ messages[j].message_type = "sent"
    /\ messages[i].chat_id # messages[j].chat_id
    /\ messages[i].contact_id # messages[j].contact_id
    /\ dbChats[P2].id = messages[i].chat_id
    /\ dbChats[P1].id = messages[j].chat_id

\* C29: when a message for a number that already has a contact supplies a
\* display name, the contact's stored name is the supplied one from the
\* moment findOrCreateContact has returned for that message.
C29_NameFollowsLaterMessage ==
  \A r \in Rids :
    reqs[r].name # "" /\ ResolverReturned(r) =>
      contacts[Phone(r)].name = reqs[r].name

\* C30: once every request has been answered, for every number that has both
\* a cache entry and a chat row, the entry's unread counter equals the row's
\* unread_count and the entry's lastMessage equals the row's last_message_at.
C30_CacheMirrorsChat ==
  Idle =>
    \A p \in DOMAIN chats \cap DOMAIN dbChats :
      /\ chats[p].unread = dbChats[p].unread_count
      /\ chats[p].lastMessage = dbChats[p].last_message_at

\* the entries of the in-memory store that carry the provider id of r's
\* message, and the requests for that number and id whose addMessage returned
CachedCopies(r) ==
  IF Phone(r) \in DOMAIN chats
  THEN {i \in DOMAIN chats[Phone(r)].messages :
          chats[Phone(r)].messages[i].id = reqs[r].message.id}
  ELSE {}
PersistedCopies(r) ==
  {k \in Rids : /\ reqs[k].kind \in {"webhook", "n8n"}
                /\ Phone(k) = Phone(r)
                /\ reqs[k].message.id = reqs[r].message.id
                /\ Persisted(k)}

\* C31: a forward request, a cache write and a new_message broadcast exist
\* only for a message whose addMessage returned: a request that failed in
\* the resolver or in addMessage has none of them, and every broadcast
\* carries the id of the row stored for its message.
C31_FanOutOnlyAfterInsert ==
  \A r \in Rids :
    reqs[r].kind \in {"webhook", "n8n"} =>
      /\ reqs[r].err \in {"db", "unique"} =>
           reqs[r].posts = <<>> /\ reqs[r].emits = <<>> /\ ~ReachedCache(r)
      /\ reqs[r].posts # <<>> \/ reqs[r].emits # <<>> =>
           /\ Persisted(r)
           /\ messages[reqs[r].savedId].whatsapp_message_id = reqs[r].message.id
      /\ \A i \in DOMAIN reqs[r].emits :
           reqs[r].emits[i].messageId = reqs[r].savedId
      /\ Cardinality(CachedCopies(r)) <= Cardinality(PersistedCopies(r))

C31_Witness ==
  \E r, k \in Inbound :
    /\ reqs[r].err = "db" /\ reqs[r].errAt = "chatUpd"
    /\ reqs[r].savedId \in DOMAIN messages
    /\ Done(k) /\ reqs[k].emits # <<>> /\ InCache(k)
    /\ reqs[k].message.id # reqs[r].message.id

\* the rows of the messages table that hold the inbound message m cached
\* for number p: same provider id, text and time, direction received, in the
\* chat of p, stored by a completed addMessage
DurableCounterparts(p, m) ==
  {j \in summarised :
     /\ p \in DOMAIN dbChats
     /\ messages[j].chat_id = dbChats[p].id
     /\ messages[j].message_type = "received"
     /\ messages[j].whatsapp_message_id = m.id
     /\ messages[j].content = m.text
     /\ messages[j].timestamp = m.timestamp}

\* C32: every inbound message held in the in-memory store has a row in the
\* messages table, stored by an addMessage call that returned.
C32_CachedInboundIsDurable ==
  \A p \in DOMAIN chats :
    \A i \in DOMAIN chats[p].messages :
      chats[p].messages[i].type = "received" =>
        DurableCounterparts(p, chats[p].messages[i]) # {}

C32_Witness ==
  \E r, k \in Inbound :
    /\ Phone(r) = Phone(k)
    /\ Done(r) /\ InCache(r) /\ Persisted(r)
    /\ reqs[k].err = "db" /\ reqs[k].errAt = "msgIns" /\ ~InCache(k)

\* the messages of the deliveries accepted so far that stand behind the
\* first message of their change
Remaining ==
  UNION { UNION { {reqs[r].metaPayload[c][i] :
                     i \in 2..Len(reqs[r].metaPayload[c])} :
                  c \in DOMAIN reqs[r].metaPayload } :
          r \in Inbound }

\* the request that ends the loop of its delivery: the one for the first
\* message of the last change
EndsDelivery(r) ==
  /\ reqs[r].kind = "webhook" /\ Done(r) /\ reqs[r].rest = <<>>
  /\ reqs[r].message = reqs[r].metaPayload[Len(reqs[r].metaPayload)][1]

\* C33: of each change of a webhook delivery the handler takes the first
\* message and no other: the remaining messages never enter
\* processIncomingMessage, have no row, no forward, no cache entry and no
\* broadcast, and the delivery is answered EVENT_RECEIVED.
C33_FirstMessageOfChangeOnly ==
  /\ \A r \in Inbound :
       /\ \E c \in DOMAIN reqs[r].metaPayload :
            reqs[r].message = reqs[r].metaPayload[c][1]
       /\ EndsDelivery(r) => reqs[r].resp = "EVENT_RECEIVED"
  /\ \A m \in Remaining :
       /\ \A k \in Rids : reqs[k].message # m
       /\ \A j \in DOMAIN messages : messages[j].whatsapp_message_id # m.id
       /\ \A k \in Rids :
            /\ \A i \in DOMAIN reqs[k].posts : reqs[k].posts[i].messageId # m.id
            /\ \A i \in DOMAIN reqs[k].emits : reqs[k].emits[i].message # m.obj.body
       /\ \A p \in DOMAIN chats :
            \A i \in DOMAIN chats[p].messages : chats[p].messages[i].id # m.id

C33_Witness ==
  \E r \in Inbound :
    /\ \E c \in DOMAIN reqs[r].metaPayload : Len(reqs[r].metaPayload[c]) = 2
    /\ EndsDelivery(r) /\ Persisted(r) /\ InCache(r)
    /\ reqs[r].fwd # <<>> /\ reqs[r].emits # <<>>

\* the kinds whose branch of processIncomingMessage calls the download
DownloadKinds == {"audio", "voice", "image"}

\* a handle exchange or a download was issued for r
Acquiring(r) == InMedia(r) \/ reqs[r].acq # ""

\* C34: a media handle exchange or download is issued only for an audio,
\* voice or image message whose media object has an id, and for each of
\* those; a video, document or sticker message is stored with the mediaInfo
\* classification built, not downloaded, and is forwarded.
C34_AcquisitionOnlyAudioImage ==
  \A r \in Inbound :
    LET m == reqs[r].message
    IN  /\ Acquiring(r) <=>
             /\ m.type \in DownloadKinds
             /\ m.obj.present /\ m.obj.id # ""
        /\ m.type \in {"video", "document", "sticker"} =>
             /\ reqs[r].savedId # 0 =>
                  /\ messages[reqs[r].savedId].media_info = Classify(m).mediaInfo
                  /\ ~messages[reqs[r].savedId].media_info.downloaded
                  /\ messages[reqs[r].savedId].content = Classify(m).content
             /\ \A i \in DOMAIN reqs[r].posts :
                  reqs[r].posts[i].message = Classify(m).content

C34_Witness ==
  \E r \in Inbound :
    /\ reqs[r].message.type = "video" /\ reqs[r].message.obj.id # ""
    /\ Done(r) /\ Persisted(r) /\ reqs[r].fwd = <<TRUE>>
    /\ messages[reqs[r].savedId].media_info.id = reqs[r].message.obj.id
    /\ ~Acquiring(r)

Sends == {r \in Rids : reqs[r].kind = "send"}
ProviderFailed(r) == reqs[r].kind = "send" /\ reqs[r].err = "provider"

\* the sends that went past the provider call and through
\* findOrCreateContact, and those whose row was stored
SendsResolved ==
  {r \in Sends : reqs[r].pc \in {"chatSel", "chatIns", "msgIns", "chatUpd",
                                 "sendForward"}
                 \/ (Done(r) /\ reqs[r].errAt \notin {"provider", "contactSel",
                                                      "contactUpd", "contactIns"})}

\* C35: a failed provider send call leaves every store as it was and ends
\* the request with an error: the step in which it fails changes neither
\* the tables nor the in-memory store, the request is answered 500 with no
\* row, no forward and no broadcast, and it counts in no contact's
\* message_count and in no stored row.
C35_FailedSendChangesNothing ==
  /\ [](\A r \in Rids :
          ProviderFailed(r) =>
            /\ Done(r) /\ reqs[r].resp = "500"
            /\ reqs[r].savedId = 0
            /\ reqs[r].posts = <<>> /\ reqs[r].fwd = <<>> /\ reqs[r].emits = <<>>)
  /\ [](P1 \in DOMAIN contacts =>
          contacts[P1].message_count =
            Cardinality(SendsResolved) + Cardinality(ResolvedFor(P1)))
  /\ [](Cardinality({j \in DOMAIN messages : messages[j].message_type = "sent"})
          <= Cardinality(SendsResolved))
  /\ [][\A r \in Rids :
          reqs[r].pc = "provider" /\ ProviderFailed(r)' =>
            UNCHANGED <<contacts, dbChats, messages, chats, chatKeys>>]_vars

C35_Witness ==
  \E r, k \in Sends :
    /\ ProviderFailed(r)
    /\ Done(k) /\ reqs[k].resp = "200" /\ reqs[k].emits # <<>>
    /\ P1 \in DOMAIN chats /\ Len(chats[P1].messages) = 1
    /\ contacts[P1].message_count = 1

\* the chat row with this id
ChatOf(id) == CHOOSE p \in DOMAIN dbChats : dbChats[p].id = id

\* C36: a chat's preview and last-message time are written together, by the
\* UPDATE chats of the addMessage call that completes last: the step that
\* completes the call for a row sets both from that row, whatever the time
\* the chat showed before, and no other step changes either of them.
C36_LastWriterWins ==
  [][/\ \A j \in summarised' \ summarised :
          /\ dbChats'[ChatOf(messages[j].chat_id)].last_message =
               lastMessageContent(messages[j])
          /\ dbChats'[ChatOf(messages[j].chat_id)].last_message_at =
               messages[j].timestamp
     /\ summarised' = summarised =>
          \A p \in DOMAIN dbChats :
            /\ dbChats'[p].last_message = dbChats[p].last_message
            /\ dbChats'[p].last_message_at = dbChats[p].last_message_at]_vars

\* C36 witness: the chat shows a message whose event time is older than that
\* of another message persisted for it
C36_Witness ==
  \E p \in DOMAIN dbChats :
    \E i, j \in CompletedRows(dbChats[p].id) :
      /\ messages[i].timestamp > messages[j].timestamp
      /\ dbChats[p].last_message_at = messages[j].timestamp
      /\ dbChats[p].last_message = lastMessageContent(messages[j])
      /\ dbChats[p].last_message # lastMessageContent(messages[i])

====
